---- MODULE Spec2Model ----
(***************************************************************************)
(* Thread/session orchestration of telegram_openai_assistant:              *)
(* ConversationManager (session store + router), AssistantHandler (the     *)
(* per-thread in-progress flag, the streamed text turn and the polled      *)
(* image turn) and the front-ends' sequential update processing.           *)
(*                                                                         *)
(* The OpenAI client is the synchronous one (bot.py:33), so a provider     *)
(* call blocks the event loop: a step of the model runs from one real      *)
(* suspension point (await send_message, await asyncio.sleep) to the next. *)
(***************************************************************************)
EXTENDS Integers, Sequences, FiniteSets, TLC

\* ------------------------------------------------------------------ bounds
NumBots == 2
NumKeys == 1
MaxThreads == 2
MaxTurns == 2
MaxChunks == 1
MaxExtends == 1

Bots == 1..NumBots          \* in registration order (dict insertion order)
Keys == 1..NumKeys          \* group_id / chat_id values

\* ------------------------------------------------------------------ values
None == "None"              \* Python None, also "key absent" for dict.get
NonStr == "<non-str>"       \* a truthy hint that is not a str (e.g. 42)
ThreadId(n) == "thread_" \o ToString(n)
Handles == {ThreadId(n) : n \in 1..MaxThreads}
HintValues == {None, "", NonStr} \cup Handles
\* (mutant) every value passes for a handle
Truthy_Always(v) == TRUE
Truthy(v) == v \notin {None, ""}
IsStr(v) == v \notin {None, NonStr}
PyTrue == "True"
PyFalse == "False"
Names == {"Ana"}
ProviderResults == {"ok", "noid", "raise"}

VARIABLES
    all_bots,          \* ConversationManager.all_bots (set of registered bots)
    threads,           \* ConversationManager.threads: key -> handle or None
    hThreads,          \* AssistantHandler.threads of each bot while it is its own dict
    aliased,           \* bot's AssistantHandler.threads IS the manager's dict object
    thread_locks,      \* keys of ConversationManager._thread_locks
    lockHeld,          \* keys whose asyncio.Lock is currently held
    user_data,         \* ConversationManager.user_data: key -> name or None
    in_progress_runs,  \* per bot: handles whose _in_progress_runs flag is True
    message_history,   \* per bot: AssistantHandler.message_history (roles)
    nextThread,        \* provider: number of threads created so far
    task,              \* per front-end: the update handler it is running
    turns,             \* number of router calls started so far
    ev,                \* the operation the last step performed, with its result
    created,           \* per key: handles the provider created since the last end
    hinted,            \* per key: handles stored from a hint since the last end
    observed,          \* per key: handles the no-hint calls returned since the last end
    stream,            \* the locals of one run of stream_response's loop over the deltas
    fmt                \* a text handed to prepare_text_for_html, and the passes made

vars == <<all_bots, threads, hThreads, aliased, thread_locks, lockHeld, user_data,
          in_progress_runs, message_history, nextThread, task, turns, ev,
          created, hinted, observed, stream, fmt>>

storeVars == <<threads, hThreads, aliased, thread_locks, lockHeld>>
ghostVars == <<created, hinted, observed>>
textVars == <<stream, fmt>>

\* ev: op is the operation ("register", "resolve", "end", "text", "image",
\* "step"), hint/ret/prov describe its set_thread_id call if it made one, and
\* exit names the path by which a turn returned in this step ("" if it did not).
\* sender/msg/tried/via describe the delivery callback that returned in this
\* step, if one did: the front-end, the notice it was given, the send_message
\* calls it made (by parse mode, in order) and those of them that succeeded.
\* status/listed describe the end of an image turn's poll loop, if it ended
\* in this step: the status and the data of messages.list.
\* raw/text describe the text of a routed turn: the text the router was given
\* and the text it called the assistant handler with (if it called it).
\* update describes the Telegram update a front-end's handler was called
\* with in this step, if one was: the handler ("message", "photo"), whether
\* the sender is a bot, the chat type and the number of mentions of the bot.
\* calls lists the calls the assistant handler made to the provider in this
\* step, in order, each with whether it returned (ok) or raised.
Ev(op, b, k, hint, ret, prov, exit) ==
    [op |-> op, bot |-> b, key |-> k, hint |-> hint, ret |-> ret, prov |-> prov,
     exit |-> exit, sender |-> 0, msg |-> "", tried |-> <<>>, via |-> <<>>,
     status |-> "", listed |-> <<>>, raw |-> <<>>, text |-> <<>>,
     calls |-> <<>>,
     update |-> [op |-> "none", is_bot |-> FALSE, chat |-> "", mentions |-> 0]]
NoEv == Ev("none", 0, 0, None, None, "none", "")
NoUpdate == NoEv.update

\* One call of the provider's API, and a step's record with the calls made
\* before those it lists already.
Call(site, ok) == [site |-> site, ok |-> ok]
Calling(e, calls) == [e EXCEPT !.calls = calls \o @]

\* A front-end's handler: pc is the suspension point it waits at ("send": in
\* a send_message call of the delivery callback; tried: the parse modes of
\* the calls that have failed for the current notice; "raised": an exception
\* left the update handler),
\* cont what the turn does when the callback returns, out the notices handed
\* to the callback, called whether the turn has called the provider, n the
\* chunks flushed (text turn) or the answers still to send (image turn),
\* status/qsent/qts/ext the poll loop's locals, texts the image turn's list
\* assistant_messages (each text named by message and item index), failed
\* whether a runs.retrieve call of the turn has raised, more the mention
\* entities of the group message that process_message's loop has yet to
\* visit (pc "mention": handle_turn has returned to that loop).
IdleTask == [pc |-> "idle", kind |-> "", key |-> 0, tid |-> None, cont |-> "",
             out |-> <<>>, called |-> FALSE, n |-> 0,
             status |-> "", qsent |-> FALSE, qts |-> FALSE, ext |-> 0,
             tried |-> <<>>, texts |-> <<>>, failed |-> FALSE, more |-> 0]

\* handle_turn returns to its caller: to the loop over the entities
\* (handlers.py 179-188) when it has more of them to visit, else the update
\* handler is over.
Back(t) ==
    IF t.more = 0 THEN IdleTask
    ELSE [IdleTask EXCEPT !.pc = "mention", !.key = t.key, !.more = t.more]

\* The mentions left for the loop when it makes a handle_turn call for one.
Pending(upd) ==
    IF upd.chat = "group" /\ upd.mentions > 1 THEN upd.mentions - 1 ELSE 0

\* The dict a handler reads as self.threads.
Cache(b) == IF aliased[b] THEN threads ELSE hThreads[b]

\* (mutant) the lookup misses every key, as with a key of the wrong type
get_thread_id_Miss(k) == None

\* get_thread_id: dict.get, None when absent
get_thread_id(k) == threads[k]

\* is_active
is_active(k) == threads[k] # None

NoBot == 0                  \* get_next_bot's None
\* get_next_bot: the first registered bot, None when there is none
get_next_bot == IF all_bots = {} THEN NoBot
                ELSE CHOOSE b \in all_bots : \A c \in all_bots : b <= c

\* ------------------------------------------------------------ construction
\* Texts are sequences of characters (one-character strings).
\* The locals of stream_response at the entry of its loop: flag is the
\* turn's _in_progress_runs entry (set at line 93), error whether the stream
\* has raised.
NoStream == [received |-> <<>>, buffer |-> <<>>, sent |-> <<>>, n |-> 0,
             done |-> FALSE, flag |-> TRUE, error |-> FALSE]
NoText == [text |-> <<>>, passes |-> 0]

InitCore ==
    /\ all_bots = {}
    /\ threads = [k \in Keys |-> None]
    /\ hThreads = [b \in Bots |-> [k \in Keys |-> None]]
    /\ aliased = [b \in Bots |-> FALSE]
    /\ thread_locks = {}
    /\ lockHeld = {}
    /\ user_data = [k \in Keys |-> None]
    /\ in_progress_runs = [b \in Bots |-> {}]
    /\ nextThread = 0
    /\ task = [b \in Bots |-> IdleTask]
    /\ turns = 0
    /\ ev = NoEv
    /\ created = [k \in Keys |-> {}]
    /\ hinted = [k \in Keys |-> {}]
    /\ observed = [k \in Keys |-> {}]

Init ==
    /\ InitCore
    /\ message_history = [b \in Bots |-> <<>>]
    /\ stream = NoStream
    /\ fmt = NoText

\* start_bots builds the bots that can be built (at least one, else it returns
\* before the loop starts) and registers them; register_bots rebinds every
\* handler's threads to the manager's dict.
RegisterBots(bots) ==
    /\ all_bots = {}
    /\ bots # {}
    /\ all_bots' = bots
    /\ aliased' = [b \in Bots |-> IF b \in bots THEN TRUE ELSE aliased[b]]
    /\ ev' = Ev("register", 0, 0, None, None, "none", "")
    /\ UNCHANGED <<textVars, threads, hThreads, thread_locks, lockHeld, user_data,
                   in_progress_runs, message_history, nextThread, task, turns,
                   created, hinted, observed>>

\* ------------------------------------------------------------ session store
\* self.threads[k] = v, then bot.assistant_handler.threads[k] = v for every
\* registered bot (a write through an aliased dict lands in the manager's).
StoreHandle(k, v) ==
    [threads |-> [threads EXCEPT ![k] = v],
     hThreads |-> [b \in Bots |->
                    IF b \in all_bots /\ ~aliased[b]
                    THEN [hThreads[b] EXCEPT ![k] = v] ELSE hThreads[b]]]

\* (mutant) the hint is recorded without the test of line 61, and so is the
\* id of whatever threads.create() returns
RecordOrCreate_Unchecked(k, hint, prov) ==
    IF hint # None
    THEN [ret |-> hint, prov |-> "none", next |-> nextThread, held |-> lockHeld]
            @@ StoreHandle(k, hint)
    ELSE IF all_bots = {} \/ prov = "raise"
    THEN [ret |-> None, prov |-> IF all_bots = {} THEN "none" ELSE prov,
          next |-> nextThread, held |-> lockHeld,
          threads |-> threads, hThreads |-> hThreads]
    ELSE IF prov = "noid"
    THEN [ret |-> "", prov |-> prov, next |-> nextThread, held |-> lockHeld]
            @@ StoreHandle(k, "")
    ELSE [ret |-> ThreadId(nextThread + 1), prov |-> prov,
          next |-> nextThread + 1, held |-> lockHeld]
            @@ StoreHandle(k, ThreadId(nextThread + 1))

\* Lines 61-90 of set_thread_id: a valid hint is recorded, otherwise a thread
\* is requested from the provider through the first registered bot's client
\* (next(iter({})) raises like the provider does). prov: what threads.create()
\* does if called. Result: the returned value, the maps after the call, what
\* the provider did ("none": not called), its counter and the held locks.
RecordOrCreate(k, hint, prov) ==
    IF Truthy(hint) /\ IsStr(hint)
    THEN [ret |-> hint, prov |-> "none", next |-> nextThread, held |-> lockHeld]
            @@ StoreHandle(k, hint)
    ELSE IF all_bots = {}
    THEN [ret |-> None, prov |-> "none", next |-> nextThread, held |-> lockHeld,
          threads |-> threads, hThreads |-> hThreads]
    ELSE IF prov \in {"raise", "noid"}
    THEN [ret |-> None, prov |-> prov, next |-> nextThread, held |-> lockHeld,
          threads |-> threads, hThreads |-> hThreads]
    ELSE [ret |-> ThreadId(nextThread + 1), prov |-> prov,
          next |-> nextThread + 1, held |-> lockHeld]
            @@ StoreHandle(k, ThreadId(nextThread + 1))

\* (mutant) no re-check for a handle stored in the meantime
SetThreadId_NoRecheck(k, hint, prov) == RecordOrCreate(k, hint, prov)

\* (mutant) the hint is ignored: a thread is always requested
SetThreadId_IgnoresHint(k, hint, prov) ==
    IF Truthy(get_thread_id(k))
    THEN [ret |-> get_thread_id(k), prov |-> "none", next |-> nextThread,
          held |-> lockHeld, threads |-> threads, hThreads |-> hThreads]
    ELSE RecordOrCreate(k, None, prov)

\* (mutant) the lock is released on the success paths only
SetThreadId_LeaksLock(k, hint, prov) ==
    IF Truthy(get_thread_id(k))
    THEN [ret |-> get_thread_id(k), prov |-> "none", next |-> nextThread,
          held |-> lockHeld, threads |-> threads, hThreads |-> hThreads]
    ELSE LET r == RecordOrCreate(k, hint, prov)
         IN [r EXCEPT !.held = IF r.ret = None THEN lockHeld \cup {k} ELSE lockHeld]

\* set_thread_id(group_id, thread_id): the body under `async with lock`, which
\* holds no suspension point: the handle found under the lock wins, and the
\* lock is released on every path.
SetThreadId(k, hint, prov) ==
    LET existing == get_thread_id(k) IN
    IF Truthy(existing)
    THEN [ret |-> existing, prov |-> "none", next |-> nextThread, held |-> lockHeld,
          threads |-> threads, hThreads |-> hThreads]
    ELSE RecordOrCreate(k, hint, prov)

\* What a set_thread_id call adds to the per-key history of the current
\* conversation (the calls since the key last had its handle removed).
NoteResolve(k, hint, r) ==
    /\ created' = IF r.prov = "ok" THEN [created EXCEPT ![k] = @ \cup {r.ret}]
                  ELSE created
    /\ hinted' = IF r.prov = "none" /\ threads[k] = None /\ r.ret # None
                 THEN [hinted EXCEPT ![k] = @ \cup {r.ret}] ELSE hinted
    /\ observed' = IF hint = None /\ r.ret # None
                   THEN [observed EXCEPT ![k] = @ \cup {r.ret}]
                   ELSE observed

\* A direct call of set_thread_id(k, hint) (the session store's interface).
ResolveOrCreate(k, hint, prov) ==
    /\ all_bots # {}
    /\ k \notin lockHeld
    /\ prov = "ok" => nextThread < MaxThreads
    /\ LET r == SetThreadId(k, hint, prov) IN
        /\ threads' = r.threads
        /\ hThreads' = r.hThreads
        /\ nextThread' = r.next
        /\ lockHeld' = r.held
        /\ thread_locks' = thread_locks \cup {k}
        /\ ev' = Ev("resolve", 0, k, hint, r.ret, r.prov, "")
        /\ NoteResolve(k, hint, r)
    /\ UNCHANGED <<textVars, all_bots, aliased, user_data, in_progress_runs,
                   message_history, task, turns>>

\* (mutant) the key is filtered out into a new dict bound to self.threads:
\* the handlers keep the old dict object, which still holds the key
end_conversation_Rebinds(k) ==
    IF threads[k] # None
    THEN [ret |-> PyTrue, threads |-> [threads EXCEPT ![k] = None],
          hThreads |-> [c \in Bots |-> IF aliased[c] THEN threads ELSE hThreads[c]],
          aliased |-> [c \in Bots |-> FALSE], user_data |-> user_data]
    ELSE [ret |-> PyFalse, threads |-> threads, hThreads |-> hThreads,
          aliased |-> aliased, user_data |-> user_data]

\* (mutant) the user's data is dropped with the thread
end_conversation_DropsProfile(k) ==
    IF threads[k] # None
    THEN [ret |-> PyTrue, aliased |-> aliased,
          user_data |-> [user_data EXCEPT ![k] = None]] @@ StoreHandle(k, None)
    ELSE [ret |-> PyFalse, threads |-> threads, hThreads |-> hThreads,
          aliased |-> aliased, user_data |-> user_data]

\* (mutant) threads.pop(group_id, None) and an unconditional return True
end_conversation_AlwaysTrue(k) ==
    [ret |-> PyTrue, aliased |-> aliased, user_data |-> user_data]
        @@ StoreHandle(k, None)

\* end_conversation(group_id): pops the key from the manager's dict and
\* deletes it from every registered handler's dict that (still) holds it.
\* Result: the returned bool and the maps after the call.
end_conversation(k) ==
    IF threads[k] # None
    THEN [ret |-> PyTrue, threads |-> [threads EXCEPT ![k] = None],
          hThreads |-> [c \in Bots |->
                          IF c \in all_bots /\ ~aliased[c] /\ hThreads[c][k] # None
                          THEN [hThreads[c] EXCEPT ![k] = None]
                          ELSE hThreads[c]],
          aliased |-> aliased, user_data |-> user_data]
    ELSE [ret |-> PyFalse, threads |-> threads, hThreads |-> hThreads,
          aliased |-> aliased, user_data |-> user_data]

\* Front-end b's /end handler calls end_conversation(k) (handlers.py 190-195).
EndConversation(b, k) ==
    /\ b \in all_bots
    /\ task[b].pc = "idle"
    /\ LET r == end_conversation(k)
       IN /\ threads' = r.threads
          /\ hThreads' = r.hThreads
          /\ aliased' = r.aliased
          /\ user_data' = r.user_data
          /\ ev' = Ev("end", b, k, None, r.ret, "none", "")
          /\ created' = IF r.ret = PyTrue THEN [created EXCEPT ![k] = {}] ELSE created
          /\ hinted' = IF r.ret = PyTrue THEN [hinted EXCEPT ![k] = {}] ELSE hinted
          /\ observed' = IF r.ret = PyTrue THEN [observed EXCEPT ![k] = {}]
                         ELSE observed
    /\ UNCHANGED <<textVars, all_bots, thread_locks, lockHeld, in_progress_runs,
                   message_history, nextThread, task, turns>>

\* ------------------------------------------------- the loop over the deltas
MaxFrags == 2
MaxFragLen == 5

NL == "\n"
White == {" ", NL}

RECURSIVE Texts(_, _)
\* The texts of at most n characters over an alphabet.
Texts(chars, n) ==
    IF n = 0 THEN {<<>>}
    ELSE LET shorter == Texts(chars, n - 1)
         IN shorter \cup {Append(x, c) : x \in shorter, c \in chars}

\* The text_deltas a run may yield: non-empty pieces of text and newlines.
Fragments == Texts({"a", NL}, MaxFragLen) \ {<<>>}

RECURSIVE LStrip(_)
LStrip(x) == IF x # <<>> /\ Head(x) \in White THEN LStrip(Tail(x)) ELSE x

RECURSIVE RStrip(_)
RStrip(x) ==
    IF x # <<>> /\ x[Len(x)] \in White THEN RStrip(SubSeq(x, 1, Len(x) - 1)) ELSE x

\* str.strip()
Strip(x) == RStrip(LStrip(x))

\* The index of the first "\n\n" in x, 0 when there is none ('\n\n' in x).
Boundary(x) ==
    LET at == {i \in 1..(Len(x) - 1) : x[i] = NL /\ x[i + 1] = NL}
    IN IF at = {} THEN 0 ELSE CHOOSE i \in at : \A j \in at : i <= j

\* Lines 121-132: buffer.split('\n\n', 1), the stripped first part is the
\* chunk and the second part the new buffer (accumulated_text is empty
\* whenever a fragment arrives).
FlushFirst(buffer) ==
    LET i == Boundary(buffer)
    IN [chunk |-> Strip(SubSeq(buffer, 1, i - 1)),
        buffer |-> SubSeq(buffer, i + 2, Len(buffer))]

\* One iteration of `for partial_text in event_handler.text_deltas`.
Fragment(frag) ==
    /\ ~stream.done
    /\ stream.n < MaxFrags
    /\ LET buffer == stream.buffer \o frag
           f == FlushFirst(buffer)
       IN stream' =
            IF Boundary(buffer) # 0
            THEN [stream EXCEPT !.received = @ \o frag, !.n = @ + 1,
                                !.buffer = f.buffer,
                                !.sent = IF f.chunk # <<>> THEN Append(@, f.chunk)
                                         ELSE @]
            ELSE [stream EXCEPT !.received = @ \o frag, !.n = @ + 1,
                                !.buffer = buffer]
    /\ UNCHANGED <<all_bots, threads, hThreads, aliased, thread_locks, lockHeld,
                   user_data, in_progress_runs, message_history, nextThread,
                   task, turns, ev, ghostVars, fmt>>

\* The stream has ended (lines 134-138): the rest of the buffer is sent if
\* it is more than white space.
EndOfStream ==
    /\ ~stream.done
    /\ stream' = [stream EXCEPT !.done = TRUE, !.flag = FALSE,
                                !.sent = IF Strip(stream.buffer) # <<>>
                                         THEN Append(@, Strip(stream.buffer))
                                         ELSE @]
    /\ UNCHANGED <<all_bots, threads, hThreads, aliased, thread_locks, lockHeld,
                   user_data, in_progress_runs, message_history, nextThread,
                   task, turns, ev, ghostVars, fmt>>

\* (mutant) the except clause sends what the buffer holds
StreamFails_Flushes ==
    /\ ~stream.done
    /\ stream' = [stream EXCEPT !.done = TRUE, !.flag = FALSE, !.error = TRUE,
                                !.sent = IF Strip(stream.buffer) # <<>>
                                         THEN Append(@, Strip(stream.buffer))
                                         ELSE @]
    /\ UNCHANGED <<all_bots, threads, hThreads, aliased, thread_locks, lockHeld,
                   user_data, in_progress_runs, message_history, nextThread,
                   task, turns, ev, ghostVars, fmt>>

\* create_and_stream or the iteration of text_deltas raises (lines 140-144):
\* the except clause logs, the finally clause clears the flag; the send of
\* the remaining buffer (lines 134-138) is inside the try and is skipped.
StreamFails ==
    /\ ~stream.done
    /\ stream' = [stream EXCEPT !.done = TRUE, !.flag = FALSE, !.error = TRUE]
    /\ UNCHANGED <<all_bots, threads, hThreads, aliased, thread_locks, lockHeld,
                   user_data, in_progress_runs, message_history, nextThread,
                   task, turns, ev, ghostVars, fmt>>

NextStream ==
    \/ \E frag \in Fragments : Fragment(frag)
    \/ EndOfStream
    \/ StreamFails

SpecStream == Init /\ [][NextStream]_vars

\* ----------------------------------------------------- prepare_text_for_html
\* A text is a sequence of characters; a literal tag and an escaped tag are
\* one element each (no pattern of the function can match a part of one).
MaxText == 3
MaxHeading == 8

\* The bullet glyph U+2022.
Bullet == "u2022"

Tags == {"<b>", "</b>", "<i>", "</i>"}
Escaped == {"&lt;b&gt;", "&lt;/b&gt;", "&lt;i&gt;", "&lt;/i&gt;"}
Special == {"#", "*", "-", Bullet, ":", "1", ".", " ", NL, "x"} \cup Tags \cup Escaped

\* The inputs: every text of up to MaxText elements, and every text of up
\* to MaxHeading heading marks and spaces.
Inputs == Texts(Special, MaxText) \cup Texts({"#", " "}, MaxHeading)

At(x, i) == IF i \in 1..Len(x) THEN x[i] ELSE ""

RECURSIVE Run(_, _, _)
\* The end of the longest run of elements of class cls from the i-th on:
\* the index after its last element (i if the run is empty).
Run(x, i, cls) ==
    IF i <= Len(x) /\ x[i] \in cls THEN Run(x, i + 1, cls) ELSE i

NotStar == Special \ {"*"}
NotLt == Special \ Tags

\* re.match of the pattern of a step at index i: the capture groups and the
\* index after the match, end = 0 when there is no match.
NoMatch == [end |-> 0, g1 |-> <<>>, g2 |-> <<>>]
Matched(e, g1, g2) == [end |-> e, g1 |-> g1, g2 |-> g2]

\* ###\s+
MatchHeading(x, i) ==
    IF At(x, i) = "#" /\ At(x, i + 1) = "#" /\ At(x, i + 2) = "#"
       /\ At(x, i + 3) \in White
    THEN Matched(Run(x, i + 3, White), <<>>, <<>>)
    ELSE NoMatch

\* \*\*\s+([^*]+)\s+\*\* : between the asterisks white space, the group and
\* white space; the first \s+ takes all the leading white space it can, the
\* group all but the last white-space character.
MatchBoldSpaced(x, i) ==
    LET k == Run(x, i + 2, NotStar)
        w == Run(x, i + 2, White)
        a == IF w = k THEN k - 2 ELSE w       \* where the group starts
    IN IF At(x, i) = "*" /\ At(x, i + 1) = "*"
          /\ At(x, k) = "*" /\ At(x, k + 1) = "*"
          /\ At(x, i + 2) \in White /\ At(x, k - 1) \in White
          /\ a > i + 2 /\ a <= k - 2
       THEN Matched(k + 2, SubSeq(x, a, k - 2), <<>>)
       ELSE NoMatch

\* \*\*([^*]+)\*\*
MatchBold(x, i) ==
    LET k == Run(x, i + 2, NotStar)
    IN IF At(x, i) = "*" /\ At(x, i + 1) = "*" /\ k > i + 2
          /\ At(x, k) = "*" /\ At(x, k + 1) = "*"
       THEN Matched(k + 2, SubSeq(x, i + 2, k - 1), <<>>)
       ELSE NoMatch

\* \s+:
MatchColon(x, i) ==
    LET j == Run(x, i, White)
    IN IF j > i /\ At(x, j) = ":" THEN Matched(j + 1, <<>>, <<>>) ELSE NoMatch

\* (bullet)\s+
MatchBullet(x, i) ==
    IF At(x, i) = Bullet /\ At(x, i + 1) \in White
    THEN Matched(Run(x, i + 1, White), <<>>, <<>>)
    ELSE NoMatch

\* \n\s*-\s+
MatchDash(x, i) ==
    LET j == Run(x, i + 1, White)
    IN IF At(x, i) = NL /\ At(x, j) = "-" /\ At(x, j + 1) \in White
       THEN Matched(Run(x, j + 1, White), <<>>, <<>>)
       ELSE NoMatch

\* (\d+)\.\s+<b>([^<]+)</b>:
MatchNumbered(x, i) ==
    LET d == Run(x, i, {"1"})
        w == Run(x, d + 1, White)
        g == Run(x, w + 1, NotLt)
    IN IF d > i /\ At(x, d) = "." /\ w > d + 1 /\ At(x, w) = "<b>"
          /\ g > w + 1 /\ At(x, g) = "</b>" /\ At(x, g + 1) = ":"
       THEN Matched(g + 2, SubSeq(x, i, d - 1), SubSeq(x, w + 1, g - 1))
       ELSE NoMatch

\* The patterns of process_markdown (assistant_handler.py 41-61).
Digits == {"1"}
NotHashNL == Special \ {"#", NL}
NotColon == Special \ {":"}

\* A run of spaces ( +).
MatchSpaces(x, i) ==
    IF At(x, i) = " " THEN Matched(Run(x, i, {" "}), <<>>, <<>>) ELSE NoMatch

\* (\d+)\.\s+\*\*\s+([^*]+)\s+\*\*\s*: : the number, the spaced bold
\* label, and a colon after optional white space.
MatchNumberedSpaced(x, i) ==
    LET d == Run(x, i, Digits)
        w == Run(x, d + 1, White)
        m == MatchBoldSpaced(x, w)
        c == Run(x, m.end, White)
    IN IF d > i /\ At(x, d) = "." /\ w > d + 1 /\ m.end # 0 /\ At(x, c) = ":"
       THEN Matched(c + 1, SubSeq(x, i, d - 1), m.g1)
       ELSE NoMatch

\* ###\s+([^#\n]+) : the white space is all there is if a character of the
\* group follows it, else it ends before its last space (a space can start
\* the group, a newline cannot).
MatchHeadingText(x, i) ==
    LET w == Run(x, i + 3, White)
        spaces == {j \in (i + 4)..(w - 1) : x[j] = " "}
        a == IF At(x, w) \in NotHashNL THEN w
             ELSE IF spaces = {} THEN 0
             ELSE CHOOSE j \in spaces : \A k \in spaces : k <= j
        e == Run(x, a, NotHashNL)
    IN IF At(x, i) = "#" /\ At(x, i + 1) = "#" /\ At(x, i + 2) = "#"
          /\ At(x, i + 3) \in White /\ a # 0
       THEN Matched(e, SubSeq(x, a, e - 1), <<>>)
       ELSE NoMatch

\* (\d+)\.\s+([^:]+): : the label is all up to the next colon; when the
\* colon follows the white space at once the label is its last character.
MatchNumberedLabel(x, i) ==
    LET d == Run(x, i, Digits)
        w == Run(x, d + 1, White)
        a == IF At(x, w) \in NotColon THEN w
             ELSE IF w - 1 > d + 1 THEN w - 1 ELSE 0
        c == Run(x, a, NotColon)
    IN IF d > i /\ At(x, d) = "." /\ w > d + 1 /\ a # 0 /\ At(x, c) = ":"
       THEN Matched(c + 1, SubSeq(x, i, d - 1), SubSeq(x, a, c - 1))
       ELSE NoMatch

\* The literals of the two str.replace calls: '**' and '* *'.
MatchStars(x, i) ==
    IF At(x, i) = "*" /\ At(x, i + 1) = "*"
    THEN Matched(i + 2, <<>>, <<>>) ELSE NoMatch

MatchStarSpaceStar(x, i) ==
    IF At(x, i) = "*" /\ At(x, i + 1) = " " /\ At(x, i + 2) = "*"
    THEN Matched(i + 3, <<>>, <<>>) ELSE NoMatch

Patterns == <<"heading", "bold_spaced", "bold", "colon", "bullet", "dash",
              "numbered", "bullet">>

Match(pat, x, i) ==
    CASE pat = "heading" -> MatchHeading(x, i)
      [] pat = "bold_spaced" -> MatchBoldSpaced(x, i)
      [] pat = "bold" -> MatchBold(x, i)
      [] pat = "colon" -> MatchColon(x, i)
      [] pat = "bullet" -> MatchBullet(x, i)
      [] pat = "dash" -> MatchDash(x, i)
      [] pat = "numbered" -> MatchNumbered(x, i)
      [] pat = "spaces" -> MatchSpaces(x, i)
      [] pat = "numbered_spaced" -> MatchNumberedSpaced(x, i)
      [] pat = "heading_text" -> MatchHeadingText(x, i)
      [] pat = "numbered_label" -> MatchNumberedLabel(x, i)
      [] pat = "bold_star" -> MatchBold(x, i)
      [] pat = "stars" -> MatchStars(x, i)
      [] pat = "star_space_star" -> MatchStarSpaceStar(x, i)

\* The replacement template of a step, expanded for match m.
Template(pat, m) ==
    CASE pat = "heading" -> <<>>
      [] pat \in {"bold_spaced", "bold"} -> <<"<b>">> \o m.g1 \o <<"</b>">>
      [] pat = "colon" -> <<":">>
      [] pat = "bullet" -> <<Bullet, " ">>
      [] pat = "dash" -> <<NL, Bullet, " ">>
      [] pat = "numbered" ->
           m.g1 \o <<".", " ", "<b>">> \o m.g2 \o <<"</b>", ":">>
      [] pat = "spaces" -> <<" ">>
      [] pat \in {"numbered_spaced", "numbered_label"} ->
           m.g1 \o <<".", " ", "*">> \o m.g2 \o <<"*", ":">>
      [] pat \in {"heading_text", "bold_star"} -> <<"*">> \o m.g1 \o <<"*">>
      [] pat \in {"stars", "star_space_star"} -> <<"*">>

RECURSIVE Sub(_, _, _)
\* re.sub(pattern, template, x) from index i on: the leftmost match is
\* replaced and the scan goes on after it (no pattern matches the empty
\* text).
Sub(pat, x, i) ==
    IF i > Len(x) THEN <<>>
    ELSE LET m == Match(pat, x, i)
         IN IF m.end # 0 THEN Template(pat, m) \o Sub(pat, x, m.end)
            ELSE <<x[i]>> \o Sub(pat, x, i + 1)

RECURSIVE Steps(_, _)
\* Steps 1 to 6: the substitutions from the p-th on, one after the other.
Steps(x, p) ==
    IF p > Len(Patterns) THEN x ELSE Steps(Sub(Patterns[p], x, 1), p + 1)

\* Step 7: the four str.replace calls.
Unescape(x) ==
    [i \in 1..Len(x) |->
       CASE x[i] = "&lt;b&gt;" -> "<b>"
         [] x[i] = "&lt;/b&gt;" -> "</b>"
         [] x[i] = "&lt;i&gt;" -> "<i>"
         [] x[i] = "&lt;/i&gt;" -> "</i>"
         [] OTHER -> x[i]]

prepare_text_for_html(x) == Unescape(Steps(x, 1))

\* The inputs of the function.
InitFormat ==
    /\ InitCore
    /\ message_history = [b \in Bots |-> <<>>]
    /\ stream = NoStream
    /\ \E x \in Inputs : fmt = [text |-> x, passes |-> 0]

\* The text is run through prepare_text_for_html once more.
Transform ==
    /\ fmt.passes < 2
    /\ fmt' = [text |-> prepare_text_for_html(fmt.text), passes |-> fmt.passes + 1]
    /\ UNCHANGED <<all_bots, threads, hThreads, aliased, thread_locks, lockHeld,
                   user_data, in_progress_runs, message_history, nextThread,
                   task, turns, ev, ghostVars, stream>>

NextFormat == Transform

SpecFormat == InitFormat /\ [][NextFormat]_vars

\* --------------------------------------------------------- process_markdown
\* The steps of process_markdown in order: five re.sub calls on the spaces,
\* the colon, the spaced numbered label, the heading and the numbered
\* label, the re.sub of the bold, and the two str.replace calls.
MarkdownPatterns == <<"spaces", "colon", "numbered_spaced", "heading_text",
                      "numbered_label", "bold_star", "stars", "star_space_star">>

RECURSIVE SubAll(_, _, _)
\* The substitutions of pats from the p-th on, one after the other.
SubAll(pats, x, p) ==
    IF p > Len(pats) THEN x ELSE SubAll(pats, Sub(pats[p], x, 1), p + 1)

process_markdown(x) == SubAll(MarkdownPatterns, x, 1)

MaxMarkup == 4
MaxSpaces == 2
MaxTitle == 3

Spaces(n) == [i \in 1..n |-> " "]

\* The numbered emphasized labels N. **label**: with up to MaxSpaces spaces
\* after the opening marker, before the closing marker and before the colon.
Labels ==
    {<<"1", ".", " ", "*", "*">> \o Spaces(a) \o <<"x">> \o Spaces(b)
        \o <<"*", "*">> \o Spaces(c) \o <<":">> : a, b, c \in 0..MaxSpaces}

\* The headings ### text, the text being words of up to MaxTitle characters.
Titles == {t \in Texts({"x", " "}, MaxTitle) : t # <<>> /\ Strip(t) = t}
Headings == {<<"#", "#", "#", " ">> \o t : t \in Titles}

\* The inputs of the two transforms: every text of up to MaxMarkup
\* characters, the labels and the headings.
Markups ==
    Texts({"#", "*", ":", "1", ".", " ", NL, "x"}, MaxMarkup)
        \cup Labels \cup Headings

\* A text handed to one of the two transforms: given is the text, by the
\* transform that made text of it ("" before).
InitMarkup ==
    /\ InitCore
    /\ message_history = [b \in Bots |-> <<>>]
    /\ stream = NoStream
    /\ \E x \in Markups : fmt = [text |-> x, passes |-> 0, given |-> x, by |-> ""]

Transformed(text, by) ==
    /\ fmt.passes = 0
    /\ fmt' = [fmt EXCEPT !.text = text, !.passes = 1, !.by = by]
    /\ UNCHANGED <<all_bots, threads, hThreads, aliased, thread_locks, lockHeld,
                   user_data, in_progress_runs, message_history, nextThread,
                   task, turns, ev, ghostVars, stream>>

ProcessMarkdown == Transformed(process_markdown(fmt.given), "process_markdown")
PrepareHtml == Transformed(prepare_text_for_html(fmt.given), "prepare_text_for_html")

NextMarkup == ProcessMarkdown \/ PrepareHtml

SpecMarkup == InitMarkup /\ [][NextMarkup]_vars

\* ----------------------------------------------------------- the user-info tag
\* A raw text is a sequence of elements: "[" stands for the literal opening
\* of the tag up to and including "Nombre=", "]" for the closing bracket,
\* "Ana" and "Bo" for runs of name characters, "hi" for a run of other
\* characters, NL for a newline.
RawChars == {"[", "]", "Ana", "Bo", NL, "hi"}
NotBracket == RawChars \ {"]"}

\* The texts the front-ends build: no tag, or the tag and a blank line before
\* the user's words (handlers.py).
PlainRaws == {<<"hi">>, <<"[", "Ana", "]", NL, NL, "hi">>}

\* Texts the router may be given besides: another name, a tag on its own,
\* a tag between words, an opening without a name, an opening that is not
\* closed, two tags.
Raws ==
    PlainRaws \cup
    {<<"[", "Bo", "]", NL, NL, "hi">>,
     <<"[", "Ana", "]">>,
     <<"hi", NL, "[", "Bo", "]", NL, "hi">>,
     <<"[", "]", "hi">>,
     <<"[", "Ana", "hi">>,
     <<"[", "Ana", "]", "[", "Bo", "]", "hi">>}

RECURSIVE Join(_)
\* The str made of the elements of x.
Join(x) == IF x = <<>> THEN "" ELSE Head(x) \o Join(Tail(x))

\* \[...Nombre=([^\]]+)\] at index i.
MatchUserInfo(x, i) ==
    LET j == Run(x, i + 1, NotBracket)
    IN IF At(x, i) = "[" /\ j > i + 1 /\ At(x, j) = "]"
       THEN Matched(j + 1, SubSeq(x, i + 1, j - 1), <<>>)
       ELSE NoMatch

\* \[...Nombre=[^\]]+\]\s*\n* at index i.
MatchUserInfoLine(x, i) ==
    LET m == MatchUserInfo(x, i)
    IN IF m.end = 0 THEN NoMatch
       ELSE Matched(Run(x, m.end, White), <<>>, <<>>)

\* re.search of line 151 / 228: the indexes at which the pattern matches.
user_name_match(message) ==
    {i \in 1..Len(message) : MatchUserInfo(message, i).end # 0}

\* (mutant) the name of the last tag is taken
user_name_Last(message) ==
    LET at == user_name_match(message)
    IN IF at = {} THEN None
       ELSE Join(MatchUserInfo(message, CHOOSE i \in at : \A j \in at : j <= i).g1)

\* user_name_match.group(1) of the leftmost match, None without a match.
user_name(message) ==
    LET at == user_name_match(message)
    IN IF at = {} THEN None
       ELSE Join(MatchUserInfo(message, CHOOSE i \in at : \A j \in at : i <= j).g1)

RECURSIVE SubUserInfo(_, _)
\* re.sub of line 156 / 233 from index i on.
SubUserInfo(x, i) ==
    IF i > Len(x) THEN <<>>
    ELSE LET m == MatchUserInfoLine(x, i)
         IN IF m.end # 0 THEN SubUserInfo(x, m.end)
            ELSE <<x[i]>> \o SubUserInfo(x, i + 1)

\* The message handed to the assistant handler (lines 152-156, 229-233).
message_str(message) ==
    IF user_name_match(message) # {} THEN SubUserInfo(message, 1) ELSE message

\* -------------------------------------------------------------- exceptions
NoHandler == "uncaught"

\* (mutant) no call is guarded by an except clause
Handler_None(site) == NoHandler

\* The except clause (file:line) that catches an exception raised by the
\* call at a site: the innermost enclosing `except Exception`. The delivery
\* callbacks of handle_turn and handle_image guard their three send_message
\* calls alike (lines 198/207/215 and 274/282/288).
Handler(site) ==
    CASE site = "threads.create" -> "conversation_manager.py:88"
      [] site = "messages.create" -> "assistant_handler.py:103"
      [] site = "create_and_stream" -> "assistant_handler.py:140"
      [] site = "text_deltas" -> "assistant_handler.py:140"
      [] site = "files.create" -> "assistant_handler.py:242"
      [] site = "image_file" -> "assistant_handler.py:215"
      [] site = "image_url" -> "assistant_handler.py:236"
      [] site = "runs.create" -> "assistant_handler.py:344"
      [] site = "runs.retrieve" -> "assistant_handler.py:310"
      [] site = "messages.list" -> "assistant_handler.py:344"
      [] site = "send_message:HTML" -> "conversation_manager.py:198"
      [] site = "send_message:MARKDOWN" -> "conversation_manager.py:207"
      [] site = "send_message:plain" -> "conversation_manager.py:215"
      [] site = "download_photo" -> "handlers.py:132"
      [] OTHER -> NoHandler

Caught(site) == Handler(site) # NoHandler

\* An exception that nothing catches leaves the turn and the router: the
\* update handler of the front-end ends with it.
Escape(t) == [t EXCEPT !.pc = "raised", !.cont = ""]

\* The call at a site raises: the turn goes on as its except clause has it
\* (handled), or the exception leaves it.
OnRaise(site, handled, t) == IF Caught(site) THEN handled ELSE Escape(t)

\* ------------------------------------------------------------------ router
\* (mutant) the busy check is missing
IsBusy_Never(h, tid) == FALSE

\* self._in_progress_runs.get(thread_id, False) of responder h
IsBusy(h, tid) == tid \in in_progress_runs[h]

\* self._in_progress_runs[thread_id] = True
SetFlag(ip, h, tid) == [ip EXCEPT ![h] = @ \cup {tid}]

\* (mutant) no finally clause
ClearFlag_Skipped(ip, h, tid) == ip

\* The finally clause of both turns: self._in_progress_runs[thread_id] = False
ClearFlag(ip, h, tid) == [ip EXCEPT ![h] = @ \ {tid}]

\* The finally clause also runs when an exception leaves the turn.
Unwind(ip, h, t) == IF t.pc = "raised" THEN ClearFlag(ip, h, t.tid) ELSE ip

\* await send_to_telegram(msg): the callback is entered and suspends in its
\* first send_message call.
CallSend(t, msg, cont) ==
    [t EXCEPT !.pc = "send", !.cont = cont, !.out = Append(@, msg),
              !.tried = <<>>]

\* What a routing step records of the turn's text.
Given(e, message, path, upd) ==
    [e EXCEPT !.raw = message, !.update = upd,
              !.text = IF path = "no_thread" THEN <<>> ELSE message_str(message)]

\* handle_turn / handle_image up to the call of the assistant handler: the
\* user-info tag (name, None when the text carries none), set_thread_id with
\* the stored handle as hint, and the forced update of the responder's cache.
Resolve(k, name, prov) ==
    LET hint == get_thread_id(k)
        r == SetThreadId(k, hint, prov)
        h == get_next_bot
        stale == Truthy(r.ret) /\ h # NoBot /\
                 (IF aliased[h] THEN r.threads[k] ELSE r.hThreads[h][k]) # r.ret
    IN [ret |-> r.ret, prov |-> r.prov, hint |-> hint, next |-> r.next,
        held |-> r.held,
        threads |-> IF stale /\ aliased[h]
                    THEN [r.threads EXCEPT ![k] = r.ret] ELSE r.threads,
        hThreads |-> IF stale /\ ~aliased[h]
                     THEN [r.hThreads EXCEPT ![h][k] = r.ret] ELSE r.hThreads,
        user_data |-> IF name # None THEN [user_data EXCEPT ![k] = name]
                      ELSE user_data]

\* The for loop over text_deltas of stream_response, run until it next
\* suspends or ends. what: "para" a non-empty paragraph is complete, "rest"
\* the stream ended with a non-empty buffer, "end" it ended with an empty
\* one, "error" the stream raised. ip: the flags when the loop goes on.
\* Result: the task, the flags, the exit path.
StreamOn(t, h, ip, what) ==
    CASE what = "para" ->
           [task |-> CallSend([t EXCEPT !.n = @ + 1], "chunk", "stream"),
            flags |-> ip, exit |-> ""]
      [] what = "rest" ->
           [task |-> CallSend(t, "chunk", "final"), flags |-> ip, exit |-> ""]
      [] OTHER ->
           [task |-> IF what = "end" THEN Back(t)
                     ELSE OnRaise("text_deltas", Back(t), t),
            flags |-> ClearFlag(ip, h, t.tid),
            exit |-> IF what = "end" THEN "stream_end" ELSE "stream_error"]

StreamEvents == {"para", "rest", "end", "error"}

\* handle_turn(group_id, message) on front-end b, up to its first suspension.
\* msg: what messages.create does; what: how the stream goes on after it
\* ("open_fail": create_and_stream raises); upd: the update whose handler
\* makes the call.
handle_turn(b, k, message, prov, msg, what, upd) ==
    /\ b \in all_bots
    /\ task[b].pc \in {"idle", "mention"}
    /\ task[b].pc = "idle" => turns < MaxTurns
    /\ k \notin lockHeld
    /\ prov = "ok" => nextThread < MaxThreads
    /\ LET r == Resolve(k, user_name(message), prov)
           h == get_next_bot
           tid == IF aliased[h] THEN r.threads[k] ELSE r.hThreads[h][k]
           t0 == [IdleTask EXCEPT !.kind = "text", !.key = k, !.tid = tid,
                                  !.called = (r.prov # "none"),
                                  !.more = Pending(upd)]
           t1 == [t0 EXCEPT !.called = TRUE]
           flagged == SetFlag(in_progress_runs, h, tid)
           go == StreamOn(t1, h, flagged,
                          IF what = "open_fail" THEN "error" ELSE what)
           path == IF ~Truthy(r.ret) THEN "no_thread"
                   ELSE IF ~Truthy(tid) THEN "no_cache"
                   ELSE IF IsBusy(h, tid) THEN "busy"
                   ELSE IF msg = "raise" THEN "msg_fail"
                   ELSE "run"
       IN /\ threads' = r.threads
          /\ hThreads' = r.hThreads
          /\ nextThread' = r.next
          /\ lockHeld' = r.held
          /\ thread_locks' = thread_locks \cup {k}
          /\ user_data' = r.user_data
          /\ NoteResolve(k, r.hint, r)
          /\ turns' = turns + 1
          /\ CASE path \in {"no_thread", "no_cache"} ->
                    /\ task' = [task EXCEPT ![b] =
                                  IF r.prov = "raise"
                                  THEN OnRaise("threads.create", Back(t0), t0)
                                  ELSE Back(t0)]
                    /\ ev' = Given(Ev("text", b, k, r.hint, r.ret, r.prov, path), message, path, upd)
                    /\ UNCHANGED <<in_progress_runs, message_history>>
               [] path = "busy" ->
                    /\ task' = [task EXCEPT ![b] = CallSend(t0, "busy", "busy")]
                    /\ ev' = Given(Ev("text", b, k, r.hint, r.ret, r.prov, ""), message, path, upd)
                    /\ UNCHANGED <<in_progress_runs, message_history>>
               [] path = "msg_fail" ->
                    /\ task' = [task EXCEPT ![b] =
                                  OnRaise("messages.create", Back(t1), t1)]
                    /\ in_progress_runs' = ClearFlag(flagged, h, tid)
                    /\ ev' = Calling(Given(Ev("text", b, k, r.hint, r.ret, r.prov, path), message, path, upd),
                                     <<Call("messages.create", FALSE)>>)
                    /\ UNCHANGED message_history
               [] path = "run" ->
                    /\ what = "para" => t1.n < MaxChunks
                    /\ task' = [task EXCEPT ![b] = go.task]
                    /\ in_progress_runs' = go.flags
                    /\ message_history' =
                         [message_history EXCEPT ![h] = Append(@, "user")]
                    /\ ev' = Calling(Given(Ev("text", b, k, r.hint, r.ret, r.prov, go.exit), message, path, upd),
                                     <<Call("messages.create", TRUE),
                                       Call("create_and_stream", what # "open_fail")>>)
    /\ UNCHANGED <<textVars, all_bots, aliased>>

\* The router is called with a text turn.
RouteText(b, k, message, prov, msg, what) ==
    handle_turn(b, k, message, prov, msg, what, NoUpdate)

\* The parse modes of the callback's send_message calls, in the order of
\* its nested try blocks (lines 193-197, 202-206, 211-214).
Modes == <<"HTML", "MARKDOWN", "plain">>

\* (mutant) a successful send is followed by the plainer ones
send_to_telegram_FallsThrough(tried) ==
    [tried |-> Modes,
     via |-> SubSeq(Modes, Len(tried) + 1, Len(Modes))]

\* send_to_telegram from its pending send_message call to its return.
\* tried: the modes whose call has raised. The pending call succeeds and the
\* callback returns, or none is left after the last except clause.
\* Result: the calls made and the calls that delivered.
send_to_telegram(tried) ==
    IF Len(tried) < Len(Modes)
    THEN [tried |-> Append(tried, Modes[Len(tried) + 1]),
          via |-> <<Modes[Len(tried) + 1]>>]
    ELSE [tried |-> tried, via |-> <<>>]

\* The callback returns to the turn: a send_message succeeded, or the last
\* fallback failed (logged only).
Delivered(b) == task[b].pc = "send"

\* What the step in which front-end b's callback returns records of it.
Returned(b, e) ==
    LET r == send_to_telegram(task[b].tried)
    IN [e EXCEPT !.sender = b, !.msg = task[b].out[Len(task[b].out)],
                 !.tried = r.tried, !.via = r.via]

\* The pending send_message call of front-end b's callback raises: the next
\* except clause makes the next, plainer call (after the last one it only
\* logs, and the callback is left to return).
SendFails(b) ==
    /\ task[b].pc = "send"
    /\ Len(task[b].tried) < Len(Modes)
    /\ LET mode == Modes[Len(task[b].tried) + 1]
           t2 == OnRaise("send_message:" \o mode,
                         [task[b] EXCEPT !.tried = Append(@, mode)], task[b])
       IN /\ task' = [task EXCEPT ![b] = t2]
          /\ in_progress_runs' =
               IF task[b].cont = "busy" THEN in_progress_runs
               ELSE Unwind(in_progress_runs, get_next_bot, t2)
    /\ ev' = NoEv
    /\ UNCHANGED <<textVars, all_bots, storeVars, user_data, message_history,
                   nextThread, turns, ghostVars>>

\* (mutant) the busy check sits inside the try block, so the finally clause
\* clears the running turn's flag
AfterBusy_ClearsFlag(b) ==
    /\ task[b].pc = "send"
    /\ task[b].cont = "busy"
    /\ task' = [task EXCEPT ![b] = IdleTask]
    /\ in_progress_runs' =
         [in_progress_runs EXCEPT ![get_next_bot] = @ \ {task[b].tid}]
    /\ ev' = Ev("step", b, task[b].key, None, None, "none", "busy")
    /\ UNCHANGED <<textVars, all_bots, storeVars, user_data, message_history,
                   nextThread, turns, ghostVars>>

\* The busy notice was handed over: stream_response / stream_image_response
\* return (lines 88-89, 159-160) without touching the flag.
AfterBusy(b) ==
    /\ Delivered(b)
    /\ task[b].cont = "busy"
    /\ task' = [task EXCEPT ![b] = Back(task[b])]
    /\ ev' = Returned(b, Ev("step", b, task[b].key, None, None, "none", "busy"))
    /\ UNCHANGED <<textVars, all_bots, storeVars, user_data, in_progress_runs,
                   message_history, nextThread, turns, ghostVars>>

\* A flushed paragraph was handed over: it is appended to the history and
\* the loop over the deltas goes on.
AfterChunk(b, what) ==
    /\ Delivered(b)
    /\ task[b].cont = "stream"
    /\ what \in StreamEvents
    /\ what = "para" => task[b].n < MaxChunks
    /\ LET h == get_next_bot
           go == StreamOn(task[b], h, in_progress_runs, what)
       IN /\ task' = [task EXCEPT ![b] = go.task]
          /\ in_progress_runs' = go.flags
          /\ message_history' =
               [message_history EXCEPT ![h] = Append(@, "assistant")]
          /\ ev' = Returned(b, Ev("step", b, task[b].key, None, None, "none", go.exit))
    /\ UNCHANGED <<textVars, all_bots, storeVars, user_data, nextThread, turns, ghostVars>>

\* The remaining buffer was handed over after the stream ended: history,
\* then the finally clause.
AfterFinal(b) ==
    /\ Delivered(b)
    /\ task[b].cont = "final"
    /\ LET h == get_next_bot
       IN /\ task' = [task EXCEPT ![b] = Back(task[b])]
          /\ in_progress_runs' = ClearFlag(in_progress_runs, h, task[b].tid)
          /\ message_history' =
               [message_history EXCEPT ![h] = Append(@, "assistant")]
          /\ ev' = Returned(b, Ev("step", b, task[b].key, None, None, "none", "final"))
    /\ UNCHANGED <<textVars, all_bots, storeVars, user_data, nextThread, turns, ghostVars>>

\* ------------------------------------------------------------- image turn
Terminal == {"completed", "failed", "cancelled", "expired"}
Statuses == {"queued", "in_progress"} \cup Terminal
MaxListed == 2

\* What messages.list(thread_id) may hold: who wrote a message (the run of
\* this turn, another run of the thread, or the user) and the types of its
\* content items.
Authors == {[role |-> "assistant", run_id |-> "this"],
            [role |-> "assistant", run_id |-> "other"],
            [role |-> "user", run_id |-> None]}
Contents == {<<"text">>, <<"image_file", "text">>}
Messages == {[role |-> a.role, run_id |-> a.run_id, content |-> c] :
               a \in Authors, c \in Contents}
RECURSIVE Listings(_)
Listings(n) ==
    IF n = 0 THEN {<<>>}
    ELSE Listings(n - 1) \cup
         {Append(l, m) : l \in {x \in Listings(n - 1) : Len(x) = n - 1},
                         m \in Messages}

\* The outcome of messages.list: it raises, or messages.data.
ListRaises == [raises |-> TRUE, data |-> <<>>]
NoAnswer == [raises |-> FALSE, data |-> <<>>]
Answers == {ListRaises} \cup
           {[raises |-> FALSE, data |-> l] : l \in Listings(MaxListed)}
\* The outcomes that differ in what the turn does next: messages.list
\* raises, lists nothing, or lists one text of the run.
PlainAnswers ==
    {ListRaises, NoAnswer,
     [raises |-> FALSE,
      data |-> <<[role |-> "assistant", run_id |-> "this",
                  content |-> <<"text">>]>>]}

RECURSIVE TextItems(_, _, _)
\* Lines 329-331 for message m: its text items from the i-th on, each named
\* by <<m, i>>.
TextItems(content, m, i) ==
    IF i > Len(content) THEN <<>>
    ELSE (IF content[i] = "text" THEN <<(<<m, i>>)>> ELSE <<>>)
         \o TextItems(content, m, i + 1)

RECURSIVE assistant_messages_AnyRun(_, _)
\* (mutant) msg.run_id is not compared
assistant_messages_AnyRun(data, m) ==
    IF m > Len(data) THEN <<>>
    ELSE (IF data[m].role = "assistant"
          THEN TextItems(data[m].content, m, 1) ELSE <<>>)
         \o assistant_messages_AnyRun(data, m + 1)

RECURSIVE assistant_messages(_, _)
\* Lines 325-331: the list assistant_messages built from messages.data, from
\* the m-th message on.
assistant_messages(data, m) ==
    IF m > Len(data) THEN <<>>
    ELSE (IF data[m].role = "assistant" /\ data[m].run_id = "this"
          THEN TextItems(data[m].content, m, 1) ELSE <<>>)
         \o assistant_messages(data, m + 1)

\* messages.list is called only after the status completed (line 318).
AnswersAt(status, answers) ==
    IF status = "completed" THEN answers ELSE {NoAnswer}

\* After the poll loop (lines 318-342). answer: the outcome of messages.list.
\* n: the texts of assistant_messages still to be sent.
AfterLoop(t, answer) ==
    IF t.status = "completed"
    THEN IF answer.raises
         THEN OnRaise("messages.list", CallSend(t, "error", "img_done"), t)
         ELSE LET texts == assistant_messages(answer.data, 1)
              IN IF texts = <<>> THEN CallSend(t, "no_response", "img_done")
                 ELSE CallSend([t EXCEPT !.n = Len(texts), !.texts = texts],
                               "answer", "answer")
    ELSE CallSend(t, "failed_status", "img_done")

\* What a step in which the poll loop ended records: the status it ended
\* with and, if messages.list was called and returned, its data.
Listed(b, t, answer) ==
    [NoEv EXCEPT !.op = IF t.status \in Terminal THEN "loop_end" ELSE "none",
                 !.bot = IF t.status \in Terminal THEN b ELSE 0,
                 !.status = IF t.status \in Terminal THEN t.status ELSE "",
                 !.listed = IF t.status = "completed" /\ ~answer.raises
                            THEN answer.data ELSE <<>>,
                 !.calls = IF t.status = "completed"
                           THEN <<Call("messages.list", ~answer.raises)>>
                           ELSE <<>>]

\* Lines 291-301: the budget check, then the backoff sleep. over: elapsed_time
\* exceeds max_wait_time.
PollBudget(t, over) ==
    IF over THEN CallSend(t, "timeout", "timeout")
    ELSE [t EXCEPT !.pc = "sleep", !.cont = ""]

\* Lines 285-289: the follow-up notice. late: more than 30 s have passed
\* since queued_time_start.
PollStillQueued(t, late, over) ==
    IF t.status = "queued" /\ t.qts /\ late
    THEN CallSend(t, "still_queued", "still")
    ELSE PollBudget(t, over)

\* (mutant) queued_message_sent is not consulted
PollTop_Renotifies(t, late, over, answer) ==
    IF t.status \in Terminal THEN AfterLoop(t, answer)
    ELSE IF t.status = "queued"
    THEN CallSend(t, "queued", "queued")
    ELSE PollStillQueued(t, late, over)

\* Lines 274-283: the loop test and the one-time queued notice.
PollTop(t, late, over, answer) ==
    IF t.status \in Terminal THEN AfterLoop(t, answer)
    ELSE IF t.status = "queued" /\ ~t.qsent
    THEN CallSend(t, "queued", "queued")
    ELSE PollStillQueued(t, late, over)

\* The inputs of a poll step: within the model's bounds, and those the step
\* does not read are fixed (FALSE, 0).
PollInputs(t, late, over, answer) ==
    LET asksLate == t.status = "queued" /\ t.qsent /\ t.qts
        asksOver == /\ t.status \notin Terminal
                    /\ ~(t.status = "queued" /\ ~t.qsent)
                    /\ ~(asksLate /\ late)
    IN /\ late => asksLate
       /\ over => asksOver /\ t.ext < MaxExtends
       /\ answer # NoAnswer => t.status = "completed"

\* handle_image(group_id, message, None, image_path) on front-end b, up to
\* its first suspension. upd: the update whose handler makes the call.
handle_image(b, k, message, prov, upd) ==
    /\ b \in all_bots
    /\ task[b].pc = "idle"
    /\ turns < MaxTurns
    /\ k \notin lockHeld
    /\ prov = "ok" => nextThread < MaxThreads
    /\ LET r == Resolve(k, user_name(message), prov)
           h == get_next_bot
           tid == IF aliased[h] THEN r.threads[k] ELSE r.hThreads[h][k]
           t0 == [IdleTask EXCEPT !.kind = "image", !.key = k, !.tid = tid,
                                  !.called = (r.prov # "none")]
           path == IF ~Truthy(r.ret) THEN "no_thread"
                   ELSE IF ~Truthy(tid) THEN "no_cache"
                   ELSE IF IsBusy(h, tid) THEN "busy"
                   ELSE "run"
       IN /\ threads' = r.threads
          /\ hThreads' = r.hThreads
          /\ nextThread' = r.next
          /\ lockHeld' = r.held
          /\ thread_locks' = thread_locks \cup {k}
          /\ user_data' = r.user_data
          /\ NoteResolve(k, r.hint, r)
          /\ turns' = turns + 1
          /\ CASE path \in {"no_thread", "no_cache"} ->
                    /\ task' = [task EXCEPT ![b] =
                                  IF r.prov = "raise"
                                  THEN OnRaise("threads.create", IdleTask, t0)
                                  ELSE IdleTask]
                    /\ ev' = Given(Ev("image", b, k, r.hint, r.ret, r.prov, path), message, path, upd)
                    /\ UNCHANGED in_progress_runs
               [] path = "busy" ->
                    /\ task' = [task EXCEPT ![b] = CallSend(t0, "busy", "busy")]
                    /\ ev' = Given(Ev("image", b, k, r.hint, r.ret, r.prov, ""), message, path, upd)
                    /\ UNCHANGED in_progress_runs
               [] path = "run" ->
                    /\ task' = [task EXCEPT ![b] =
                                  CallSend(t0, "analyzing", "img_setup")]
                    /\ in_progress_runs' = SetFlag(in_progress_runs, h, tid)
                    /\ ev' = Given(Ev("image", b, k, r.hint, r.ret, r.prov, ""), message, path, upd)
    /\ UNCHANGED <<textVars, all_bots, aliased, message_history>>

\* The router is called with an image turn.
RouteImage(b, k, message, prov) == handle_image(b, k, message, prov, NoUpdate)

Setups == {"text_fail", "upload_fail", "file", "b64", "attach_fail"}

\* (mutant) a failed attach by file reference is not retried inline
Prepare_NoFallback(setup) ==
    LET text == Call("messages.create", setup # "text_fail")
        upload == Call("files.create", setup # "upload_fail")
        byRef == Call("image_file", setup = "file")
    IN CASE setup = "text_fail" -> <<text>>
         [] setup = "upload_fail" -> <<text, upload>>
         [] OTHER -> <<text, upload, byRef>>

\* (mutant) the upload is attempted although the text message failed
Prepare_GoesOn(setup) ==
    LET text == Call("messages.create", setup # "text_fail")
        upload == Call("files.create", setup \notin {"text_fail", "upload_fail"})
        byRef == Call("image_file", setup = "file")
        inline == Call("image_url", setup = "b64")
    IN CASE setup \in {"text_fail", "upload_fail"} -> <<text, upload>>
         [] setup = "file" -> <<text, upload, byRef>>
         [] OTHER -> <<text, upload, byRef, inline>>

\* The calls of the preparation (lines 179-246): the text message, the
\* upload, the attach by file reference and, if that raised, the attach as
\* inline base64. Each is made only if the one before returned, but for the
\* inline attach, which the except clause of the first attach makes.
Prepare(setup) ==
    LET text == Call("messages.create", setup # "text_fail")
        upload == Call("files.create", setup # "upload_fail")
        byRef == Call("image_file", setup = "file")
        inline == Call("image_url", setup = "b64")
    IN CASE setup = "text_fail" -> <<text>>
         [] setup = "upload_fail" -> <<text, upload>>
         [] setup = "file" \/ ~Caught("image_file") -> <<text, upload, byRef>>
         [] OTHER -> <<text, upload, byRef, inline>>

\* Lines 169-266, after the "analyzing" notice: the model lookup, the text
\* message, the upload, the attach (file reference, else inline base64) and
\* the run. setup: how far the preparation gets; run: runs.create raises or
\* the status of the new run.
ImgSetup(b, setup, run, over, answer) ==
    /\ Delivered(b)
    /\ task[b].cont = "img_setup"
    /\ setup \notin {"file", "b64"} => run = "raise"
    /\ IF run = "raise" THEN ~over /\ answer = NoAnswer
       ELSE PollInputs([task[b] EXCEPT !.status = run], FALSE, over, answer)
    /\ LET h == get_next_bot
           t == [task[b] EXCEPT !.called = TRUE]
           attached == setup = "file" \/ Caught("image_file")
           t2 == CASE setup \in {"text_fail", "upload_fail"} ->
                        OnRaise("files.create",
                                CallSend(t, "upload_failed", "img_abort"), t)
                   [] setup = "attach_fail" ->
                        OnRaise("image_url",
                                CallSend(t, "cannot_process", "img_abort"), t)
                   [] ~attached -> Escape(t)
                   [] run = "raise" ->
                        OnRaise("runs.create",
                                CallSend(t, "error", "img_done"), t)
                   [] OTHER ->
                        PollTop([t EXCEPT !.status = run], FALSE, over, answer)
       IN /\ task' = [task EXCEPT ![b] = t2]
          /\ message_history' =
               IF setup \in {"file", "b64"} /\ attached
               THEN [message_history EXCEPT ![h] = Append(@, "user")]
               ELSE message_history
          /\ in_progress_runs' = Unwind(in_progress_runs, h, t2)
          /\ ev' = Calling(Returned(b, Listed(b, t2, answer)),
                           Prepare(setup) \o
                           IF setup \in {"file", "b64"} /\ attached
                           THEN <<Call("runs.create", run # "raise")>>
                           ELSE <<>>)
    /\ UNCHANGED <<textVars, all_bots, storeVars, user_data, nextThread, turns, ghostVars>>

\* The queued notice was handed over (lines 282-283).
AfterQueued(b, late, over) ==
    /\ Delivered(b)
    /\ task[b].cont = "queued"
    /\ PollInputs([task[b] EXCEPT !.qsent = TRUE, !.qts = TRUE], late, over,
                  NoAnswer)
    /\ task' = [task EXCEPT ![b] =
         PollStillQueued([task[b] EXCEPT !.qsent = TRUE, !.qts = TRUE], late, over)]
    /\ ev' = Returned(b, NoEv)
    /\ UNCHANGED <<textVars, all_bots, storeVars, user_data, in_progress_runs,
                   message_history, nextThread, turns, ghostVars>>

\* The follow-up notice was handed over (line 289).
AfterStillQueued(b, over) ==
    /\ Delivered(b)
    /\ task[b].cont = "still"
    /\ PollInputs([task[b] EXCEPT !.qts = FALSE], FALSE, over, NoAnswer)
    /\ task' = [task EXCEPT ![b] = PollBudget([task[b] EXCEPT !.qts = FALSE], over)]
    /\ ev' = Returned(b, NoEv)
    /\ UNCHANGED <<textVars, all_bots, storeVars, user_data, in_progress_runs,
                   message_history, nextThread, turns, ghostVars>>

\* max_wait_time after t.ext extensions (lines 269, 297), in seconds.
max_wait_time(t) == 120 + 60 * t.ext

\* (mutant) the turn gives up after the timeout notice
AfterTimeout_Aborts(b) ==
    /\ Delivered(b)
    /\ task[b].cont = "timeout"
    /\ task' = [task EXCEPT ![b] = IdleTask]
    /\ in_progress_runs' = ClearFlag(in_progress_runs, get_next_bot, task[b].tid)
    /\ ev' = Returned(b, NoEv)
    /\ UNCHANGED <<textVars, all_bots, storeVars, user_data,
                   message_history, nextThread, turns, ghostVars>>

\* The timeout notice was handed over: the budget grows (line 297) and the
\* loop sleeps.
AfterTimeout(b) ==
    /\ Delivered(b)
    /\ task[b].cont = "timeout"
    /\ task' = [task EXCEPT ![b] =
         PollBudget([task[b] EXCEPT !.ext = @ + 1], FALSE)]
    /\ ev' = Returned(b, NoEv)
    /\ UNCHANGED <<textVars, all_bots, storeVars, user_data, in_progress_runs,
                   message_history, nextThread, turns, ghostVars>>

\* (mutant) a failed retrieval ends the loop with the error notice
Retrieve_GivesUp(b, res, late, over, answer) ==
    /\ task[b].pc = "sleep"
    /\ IF res = "raise" THEN ~late /\ ~over /\ answer = NoAnswer
       ELSE PollInputs([task[b] EXCEPT !.status = res], late, over, answer)
    /\ LET t2 == IF res = "raise"
                 THEN OnRaise("runs.retrieve",
                              CallSend(task[b], "error", "img_done"), task[b])
                 ELSE PollTop([task[b] EXCEPT !.status = res], late, over, answer)
       IN /\ task' = [task EXCEPT ![b] = t2]
          /\ in_progress_runs' = Unwind(in_progress_runs, get_next_bot, t2)
          /\ ev' = Calling(Listed(b, t2, answer),
                           <<Call("runs.retrieve", res # "raise")>>)
    /\ UNCHANGED <<textVars, all_bots, storeVars, user_data, message_history,
                   nextThread, turns, ghostVars>>

\* asyncio.sleep(base_wait) is over: runs.retrieve (lines 304-313). res: it
\* raises, or the status it reports.
Retrieve(b, res, late, over, answer) ==
    /\ task[b].pc = "sleep"
    /\ IF res = "raise" THEN ~late /\ ~over /\ answer = NoAnswer
       ELSE PollInputs([task[b] EXCEPT !.status = res], late, over, answer)
    /\ LET t2 == IF res = "raise"
                 THEN OnRaise("runs.retrieve",
                              [task[b] EXCEPT !.pc = "sleep5", !.failed = TRUE], task[b])
                 ELSE PollTop([task[b] EXCEPT !.status = res], late, over, answer)
       IN /\ task' = [task EXCEPT ![b] = t2]
          /\ in_progress_runs' = Unwind(in_progress_runs, get_next_bot, t2)
          /\ ev' = Calling(Listed(b, t2, answer),
                           <<Call("runs.retrieve", res # "raise")>>)
    /\ UNCHANGED <<textVars, all_bots, storeVars, user_data, message_history,
                   nextThread, turns, ghostVars>>

\* asyncio.sleep(5) after a failed retrieve is over: back to the loop test
\* with the last known status.
RetryPoll(b, late, over) ==
    /\ task[b].pc = "sleep5"
    /\ PollInputs(task[b], late, over, NoAnswer)
    /\ task' = [task EXCEPT ![b] = PollTop(task[b], late, over, NoAnswer)]
    /\ ev' = NoEv
    /\ UNCHANGED <<textVars, all_bots, storeVars, user_data, in_progress_runs,
                   message_history, nextThread, turns, ghostVars>>

\* An assistant text was handed over (lines 337-338): history, then the
\* next text, or the finally clause after the last one.
AfterAnswer(b) ==
    /\ Delivered(b)
    /\ task[b].cont = "answer"
    /\ LET h == get_next_bot
           last == task[b].n = 1
       IN /\ message_history' =
               [message_history EXCEPT ![h] = Append(@, "assistant")]
          /\ task' = [task EXCEPT ![b] =
               IF last THEN IdleTask
               ELSE CallSend([task[b] EXCEPT !.n = @ - 1], "answer", "answer")]
          /\ in_progress_runs' =
               IF last THEN ClearFlag(in_progress_runs, h, task[b].tid)
               ELSE in_progress_runs
          /\ ev' = Returned(b, Ev("step", b, task[b].key, None, None, "none",
                      IF last THEN "answered" ELSE ""))
    /\ UNCHANGED <<textVars, all_bots, storeVars, user_data, nextThread, turns, ghostVars>>

\* A failure notice of the preparation was handed over: the flag is cleared
\* and the turn returns (lines 239-240, 245-246, then finally).
AfterImgAbort(b) ==
    /\ Delivered(b)
    /\ task[b].cont = "img_abort"
    /\ task' = [task EXCEPT ![b] = IdleTask]
    /\ in_progress_runs' = ClearFlag(in_progress_runs, get_next_bot, task[b].tid)
    /\ ev' = Returned(b, Ev("step", b, task[b].key, None, None, "none", "img_abort"))
    /\ UNCHANGED <<textVars, all_bots, storeVars, user_data, message_history,
                   nextThread, turns, ghostVars>>

\* The last notice of the turn was handed over (lines 340, 342, 346): the
\* finally clause, and the turn returns.
AfterImgDone(b) ==
    /\ Delivered(b)
    /\ task[b].cont = "img_done"
    /\ task' = [task EXCEPT ![b] = IdleTask]
    /\ in_progress_runs' = ClearFlag(in_progress_runs, get_next_bot, task[b].tid)
    /\ ev' = Returned(b, Ev("step", b, task[b].key, None, None, "none", "img_done"))
    /\ UNCHANGED <<textVars, all_bots, storeVars, user_data, message_history,
                   nextThread, turns, ghostVars>>

\* The running turn of front-end b resumes from its suspension point (a
\* send_message call that succeeds or was the last fallback, or a sleep) and
\* runs to the next one, but for the return of a busy turn (which takes a
\* second front-end).
Resume(b, answers) ==
    \/ \E what \in StreamEvents : AfterChunk(b, what)
    \/ AfterFinal(b)
    \/ \E over \in BOOLEAN, setup \in Setups, run \in Statuses \cup {"raise"} :
          \E answer \in AnswersAt(run, answers) :
             ImgSetup(b, setup, run, over, answer)
    \/ \E late, over \in BOOLEAN : AfterQueued(b, late, over)
    \/ \E over \in BOOLEAN : AfterStillQueued(b, over)
    \/ AfterTimeout(b)
    \/ \E late, over \in BOOLEAN, res \in Statuses \cup {"raise"} :
          \E answer \in AnswersAt(res, answers) :
             Retrieve(b, res, late, over, answer)
    \/ \E late, over \in BOOLEAN : RetryPoll(b, late, over)
    \/ AfterAnswer(b)
    \/ AfterImgAbort(b)
    \/ AfterImgDone(b)

\* The steps of the front-ends in B, messages.list drawing its outcome from
\* answers and the routed turns their text from raws.
Step(B, answers, raws) ==
    \/ \E bots \in SUBSET Bots : RegisterBots(bots)
    \/ \E b \in B, k \in Keys : EndConversation(b, k)
    \/ \E b \in B, k \in Keys, message \in raws,
          prov \in ProviderResults, msg \in {"ok", "raise"},
          what \in StreamEvents \cup {"open_fail"} :
          RouteText(b, k, message, prov, msg, what)
    \/ \E b \in B, k \in Keys, message \in raws,
          prov \in ProviderResults : RouteImage(b, k, message, prov)
    \/ \E b \in B : Resume(b, answers)

Next ==
    \/ Step(Bots, PlainAnswers, PlainRaws)
    \/ \E b \in Bots : AfterBusy(b)

\* One front-end on its own, every send_message call a step of its own and
\* every listing within the bound an outcome of messages.list.
Solo == {1}
NextSolo ==
    \/ Step(Solo, Answers, PlainRaws)
    \/ \E b \in Solo : SendFails(b)

\* The session store on its own: registration, direct set_thread_id calls
\* with any hint, and end_conversation.
NextStore ==
    \/ \E bots \in SUBSET Bots : RegisterBots(bots)
    \/ \E b \in Bots, k \in Keys : EndConversation(b, k)
    \/ \E k \in Keys, hint \in HintValues, prov \in ProviderResults :
          ResolveOrCreate(k, hint, prov)

Spec == Init /\ [][Next]_vars
SpecStore == Init /\ [][NextStore]_vars
SpecSolo == Init /\ [][NextSolo]_vars

\* One front-end whose running turn is always resumed: the event loop wakes
\* the coroutine when its send_message call or its sleep is over.
SpecLive == Init /\ [][NextSolo]_vars /\ \A b \in Solo : WF_vars(Resume(b, Answers))

\* One front-end, the routed turns drawing their text from Raws.
NextRaw == Step(Solo, PlainAnswers, Raws)
SpecRaw == Init /\ [][NextRaw]_vars

\* --------------------------------------------------------------- front-ends
MaxMentions == 2

\* The updates a front-end's message and photo handlers are called with.
Updates(op) ==
    {[op |-> op, is_bot |-> i, chat |-> c, mentions |-> m] :
       i \in BOOLEAN, c \in {"private", "group"}, m \in 0..MaxMentions}

\* user_context + text (handlers.py 120-121, 162-163).
enhanced_message(first_name, text) == <<"[", first_name, "]", NL, NL>> \o text

\* The handler returns without calling the router, or an exception leaves
\* it (site: the call that raised).
Unrouted(b, k, upd, exit, site) ==
    /\ task' = [task EXCEPT ![b] =
                  IF site = "" THEN @ ELSE OnRaise(site, @, @)]
    /\ ev' = [Ev("update", b, k, None, None, "none", exit) EXCEPT !.update = upd]
    /\ turns' = turns + 1
    /\ UNCHANGED <<textVars, all_bots, storeVars, user_data, in_progress_runs,
                   message_history, nextThread, ghostVars>>

\* process_message(update, context) on front-end b (handlers.py 142-188) for
\* an update with a text message, up to its first suspension. In a group
\* with a mention and no active conversation line 182 calls the dict
\* manager.active_conversation, which raises TypeError.
process_message(b, k, upd, first_name, prov, msg, what) ==
    /\ b \in all_bots
    /\ task[b].pc = "idle"
    /\ turns < MaxTurns
    /\ upd \in Updates("message")
    /\ CASE upd.is_bot -> Unrouted(b, k, upd, "from_bot", "")
         [] ~upd.is_bot /\ upd.chat = "group" /\ upd.mentions = 0 ->
              Unrouted(b, k, upd, "no_mention", "")
         [] ~upd.is_bot /\ upd.chat = "group" /\ upd.mentions > 0
              /\ ~is_active(k) ->
              Unrouted(b, k, upd, "TypeError", "active_conversation()")
         [] OTHER ->
              handle_turn(b, k, enhanced_message(first_name, <<"hi">>),
                          prov, msg, what, upd)

\* The loop over the entities of process_message (handlers.py 179-188) goes
\* on after a handle_turn call has returned: the next mention entity that
\* names the bot passes the test of line 180 again, and lines 181-188 run
\* for it with the same enhanced_message. No await lies between the return
\* and this step.
NextMention(b, first_name, prov, msg, what) ==
    /\ b \in all_bots
    /\ task[b].pc = "mention"
    /\ user_data[task[b].key] = first_name
    /\ LET k == task[b].key
           upd == [op |-> "mention", is_bot |-> FALSE, chat |-> "group",
                   mentions |-> task[b].more]
       IN IF ~is_active(k)
          THEN Unrouted(b, k, upd, "TypeError", "active_conversation()")
          ELSE handle_turn(b, k, enhanced_message(first_name, <<"hi">>),
                           prov, msg, what, upd)

\* process_photo(update, context) on front-end b (handlers.py 93-140) for an
\* update with a photo, up to the first suspension of handle_image. pre: the
\* processing notice cannot be sent (before the try), the download fails
\* (caught at line 132), or both succeed.
process_photo(b, k, upd, first_name, pre, prov) ==
    /\ b \in all_bots
    /\ task[b].pc = "idle"
    /\ turns < MaxTurns
    /\ upd \in Updates("photo")
    /\ upd.mentions = 0
    /\ CASE pre = "notice_fail" ->
              Unrouted(b, k, upd, "notice_fail", "send_message:processing")
         [] pre = "download_fail" ->
              Unrouted(b, k, upd, "download_fail", "download_photo")
         [] OTHER ->
              handle_image(b, k, enhanced_message(first_name, <<"hi">>), prov, upd)

\* An exception left front-end b's handler: the application logs it and
\* takes the next update.
NextUpdate(b) ==
    /\ task[b].pc = "raised"
    /\ task' = [task EXCEPT ![b] = IdleTask]
    /\ ev' = NoEv
    /\ UNCHANGED <<textVars, all_bots, storeVars, user_data, in_progress_runs,
                   message_history, nextThread, turns, ghostVars>>

\* One front-end with its handlers: the router is called by them only.
NextFront ==
    \/ \E bots \in SUBSET Bots : RegisterBots(bots)
    \/ \E b \in Solo, k \in Keys : EndConversation(b, k)
    \/ \E b \in Solo, k \in Keys, upd \in Updates("message"),
          first_name \in {"Ana", "Bo"}, prov \in ProviderResults,
          msg \in {"ok", "raise"}, what \in StreamEvents \cup {"open_fail"} :
          process_message(b, k, upd, first_name, prov, msg, what)
    \/ \E b \in Solo, k \in Keys, upd \in Updates("photo"),
          first_name \in {"Ana", "Bo"},
          pre \in {"ok", "notice_fail", "download_fail"},
          prov \in ProviderResults :
          process_photo(b, k, upd, first_name, pre, prov)
    \/ \E b \in Solo, first_name \in {"Ana", "Bo"}, prov \in ProviderResults,
          msg \in {"ok", "raise"}, what \in StreamEvents \cup {"open_fail"} :
          NextMention(b, first_name, prov, msg, what)
    \/ \E b \in Solo : Resume(b, PlainAnswers)
    \/ \E b \in Solo : NextUpdate(b)

SpecFront == Init /\ [][NextFront]_vars

\* ------------------------------------------------------ the message history
max_messages == 20
MaxPast == 10

\* trim_message_history (lines 351-355); no line of the package calls it.
trim_message_history(h) ==
    IF Len(h) > max_messages
    THEN SubSeq(h, Len(h) - max_messages + 1, Len(h))
    ELSE h

RECURSIVE Exchanges(_)
\* What n answered text turns have appended to a handler's history.
Exchanges(n) ==
    IF n = 0 THEN <<>> ELSE Exchanges(n - 1) \o <<"user", "assistant">>

\* The process has served up to MaxPast text turns, all of them over.
InitHist ==
    /\ InitCore
    /\ \E n \in 0..MaxPast : message_history = [b \in Bots |-> Exchanges(n)]
    /\ stream = NoStream
    /\ fmt = NoText

NextHist == Step(Solo, PlainAnswers, PlainRaws)

SpecHist == InitHist /\ [][NextHist]_vars

\* ================================================================== claims
\* Front-end b runs a turn that performed the IDLE -> IN_PROGRESS transition
\* and has not returned yet.
InTurn(b) == task[b].pc \notin {"idle", "raised", "mention"} /\ task[b].cont # "busy"

\* The step just taken was a call of handle_turn / handle_image.
IsRoute(e) == e.op \in {"text", "image"}

\* Every registered responder's cache holds v for key k.
CachesHold(k, v) == \A b \in all_bots : Cache(b)[k] = v

\* C1: in every reachable state no two turns (text or image, from whichever
\* front-end) are in progress on the same ThreadHandle, and a turn in
\* progress has its handle flagged IN_PROGRESS.
C1_OneTurnPerThread ==
    /\ \A b1, b2 \in Bots :
         (b1 # b2 /\ InTurn(b1) /\ InTurn(b2)) => task[b1].tid # task[b2].tid
    /\ \A b \in Bots : InTurn(b) => task[b].tid \in in_progress_runs[get_next_bot]

\* C1 witness: while one turn is in progress on a handle, a second turn for
\* the same handle has arrived on the other front-end and was turned away.
C1_Witness ==
    \E b1, b2 \in Bots :
        /\ InTurn(b1)
        /\ task[b2].pc = "send" /\ task[b2].cont = "busy"
        /\ task[b1].tid = task[b2].tid

\* C2: among the set_thread_id calls made for a key since it last had no
\* handle, the provider created at most one thread, the no-hint calls that
\* returned a handle all returned the same one, and (no hint having been
\* recorded) that handle is the one thread created and the one stored.
C2_SingleCreation ==
    \A k \in Keys :
        /\ Cardinality(created[k]) <= 1
        /\ Cardinality(observed[k]) <= 1
        /\ (hinted[k] = {} /\ observed[k] # {}) =>
               (observed[k] = created[k] /\ observed[k] = {threads[k]})

\* C2 witness: a further no-hint call has returned the handle that an earlier
\* no-hint call had created, without calling the provider.
C2_Witness ==
    /\ ev.op = "resolve" /\ ev.hint = None /\ ev.prov = "none"
    /\ ev.ret # None
    /\ hinted[ev.key] = {}
    /\ created[ev.key] = {ev.ret}

\* C3: a turn routed to a handle whose flag is set goes the busy way: it
\* hands exactly the busy notice to its callback, calls the provider neither
\* when it arrives nor when it returns, and both steps leave the flags, the
\* message history and the session store (with the caches) unchanged.
C3_BusyTurn ==
    [][ /\ (IsRoute(ev') /\ threads[ev'.key] # None
              /\ threads[ev'.key] \in in_progress_runs[get_next_bot]) =>
               /\ task'[ev'.bot].pc = "send" /\ task'[ev'.bot].cont = "busy"
               /\ task'[ev'.bot].out = <<"busy">>
               /\ ~task'[ev'.bot].called
               /\ ev'.prov = "none"
               /\ UNCHANGED <<in_progress_runs, message_history, threads,
                              hThreads, aliased, nextThread>>
        /\ \A b \in Bots :
             (task[b].cont = "busy" /\ task'[b].pc = "idle") =>
               /\ task[b].out = <<"busy">>
               /\ ~task[b].called
               /\ UNCHANGED <<in_progress_runs, message_history, threads,
                              hThreads, aliased, nextThread>>
      ]_vars

\* C3 witness: a busy turn has returned while the turn that holds the flag
\* is still in progress.
C3_Witness ==
    /\ ev.exit = "busy"
    /\ \E b \in Bots : InTurn(b) /\ task[b].tid \in in_progress_runs[get_next_bot]

\* C4: whenever a turn that set the flag returns (in a later step, or in the
\* step that started it), the flag of its handle is clear afterwards.
C4_FlagClearedOnReturn ==
    [][ /\ \A b \in Bots :
             (InTurn(b) /\ task'[b].pc = "idle") =>
                 task[b].tid \notin in_progress_runs'[get_next_bot]
        /\ (IsRoute(ev') /\ ev'.exit \in {"msg_fail", "stream_end", "stream_error"}) =>
                 ev'.ret \notin in_progress_runs'[get_next_bot]
      ]_vars

\* C4 witness: an image turn has returned by the early abort after a failed
\* preparation, and no flag is set.
C4_Witness ==
    /\ ev.exit = "img_abort"
    /\ \A b \in Bots : in_progress_runs[b] = {}

\* C5: while a key has a stored handle, every step keeps that handle and
\* creates no thread for the key, and a set_thread_id call for the key
\* returns it without calling the provider; only end_conversation of that
\* key removes it.
C5_HandleReused ==
    [][ \A k \in Keys :
          threads[k] # None =>
            \/ /\ threads'[k] = threads[k]
               /\ created'[k] = created[k]
               /\ (ev'.op \in {"text", "image", "resolve"} /\ ev'.key = k) =>
                      (ev'.ret = threads[k] /\ ev'.prov = "none")
            \/ /\ ev'.op = "end" /\ ev'.key = k /\ ev'.ret = PyTrue
               /\ threads'[k] = None
      ]_vars

\* C5 witness: a turn was routed for a key that already had a handle, and
\* got that handle without a provider call.
C5_Witness ==
    /\ IsRoute(ev) /\ ev.hint # None
    /\ ev.ret = ev.hint /\ ev.prov = "none"
    /\ threads[ev.key] = ev.ret

\* C6: once the bots are registered, every registered responder's thread
\* cache agrees with the session store on every key.
C6_CachesAgree ==
    \A k \in Keys : CachesHold(k, threads[k])

\* C6 witness: two responders are registered, a handle was created and, in
\* the last step, removed again by end_conversation.
C6_Witness ==
    /\ all_bots = Bots
    /\ ev.op = "end" /\ ev.ret = PyTrue
    /\ nextThread > 0

\* C7: end_conversation of a key that has a handle returns True, leaves the
\* key without a handle in the store and in every responder's cache (so
\* get_thread_id returns None) and leaves user_data unchanged.
C7_EndActive ==
    [][ (ev'.op = "end" /\ threads[ev'.key] # None) =>
          /\ ev'.ret = PyTrue
          /\ \A k \in Keys : k = ev'.key => get_thread_id(k)' = None
          /\ \A b \in all_bots : Cache(b)'[ev'.key] = None
          /\ user_data' = user_data
      ]_vars

\* C7 witness: a conversation whose user name is known was ended.
C7_Witness ==
    /\ ev.op = "end" /\ ev.ret = PyTrue
    /\ user_data[ev.key] # None
    /\ threads[ev.key] = None

\* C8: end_conversation of a key without a handle returns False and changes
\* neither the store, the caches, the flags, the locks nor user_data.
C8_EndInactive ==
    [][ (ev'.op = "end" /\ threads[ev'.key] = None) =>
          /\ ev'.ret = PyFalse
          /\ UNCHANGED <<threads, hThreads, aliased, in_progress_runs,
                         thread_locks, lockHeld, user_data, message_history>>
      ]_vars

\* C8 witness: end_conversation was called for a key that has no handle but
\* has a lock, a user name and a turn still in progress.
C8_Witness ==
    /\ ev.op = "end" /\ ev.ret = PyFalse
    /\ ev.key \in thread_locks
    /\ user_data[ev.key] # None
    /\ \E b \in Bots : InTurn(b)

\* C9 as stated: a set_thread_id call with a valid hint records the hint
\* and returns it whatever the store held.
C9_HintAlwaysRecorded ==
    (ev.op = "resolve" /\ Truthy(ev.hint) /\ IsStr(ev.hint)) =>
        (ev.ret = ev.hint /\ threads[ev.key] = ev.hint)

\* C9 amended: a set_thread_id call with a valid hint records and returns
\* the hint when the key has no handle; when the key has a handle (the hint
\* or another one) it returns the stored handle and leaves the store as it is.
C9_HintRecordedIfAbsent ==
    [][ (ev'.op = "resolve" /\ Truthy(ev'.hint) /\ IsStr(ev'.hint)) =>
          IF threads[ev'.key] = None
          THEN /\ ev'.ret = ev'.hint
               /\ threads'[ev'.key] = ev'.hint
               /\ \A b \in all_bots : Cache(b)'[ev'.key] = ev'.hint
          ELSE /\ ev'.ret = threads[ev'.key]
               /\ UNCHANGED <<threads, hThreads>>
      ]_vars

\* C9 witness: a call with a valid hint was made for a key that holds
\* another handle, which had itself been recorded from a hint.
C9_Witness ==
    /\ ev.op = "resolve" /\ Truthy(ev.hint) /\ IsStr(ev.hint)
    /\ ev.ret # ev.hint /\ threads[ev.key] = ev.ret
    /\ hinted[ev.key] = {ev.ret}

\* C10: a no-hint set_thread_id call whose thread creation raises or yields
\* no id returns None, leaves the key without a handle in the store and in
\* every cache, and leaves the key's lock free.
C10_CreationFails ==
    (ev.op = "resolve" /\ ev.prov \in {"raise", "noid"}) =>
        /\ ev.ret = None
        /\ threads[ev.key] = None
        /\ CachesHold(ev.key, None)
        /\ ev.key \notin lockHeld
        /\ ev.key \in thread_locks

\* C10 witness: thread creation raised during a call without a usable hint.
C10_Witness ==
    /\ ev.op = "resolve" /\ ev.prov = "raise"
    /\ ev.ret = None
    /\ ~Truthy(ev.hint)

\* C11: a handle_turn / handle_image call whose set_thread_id returned no
\* handle returns at once: the front-end is idle again having called neither
\* the assistant handler nor the provider a further time, nothing was handed
\* to the delivery callback, and no flag and no history entry changed.
C11_NoHandleAborts ==
    [][ (IsRoute(ev') /\ ev'.ret = None) =>
          /\ task'[ev'.bot] = IdleTask
          /\ ev'.exit = "no_thread"
          /\ ev'.sender = 0
          /\ UNCHANGED <<in_progress_runs, message_history, task>>
      ]_vars

\* C11 witness: thread creation failed for a turn that arrived while an
\* earlier turn (of the conversation ended in between) was still in progress.
C11_Witness ==
    /\ IsRoute(ev) /\ ev.ret = None /\ ev.prov \in {"raise", "noid"}
    /\ \E b \in Bots : InTurn(b) /\ task[b].tid \in in_progress_runs[get_next_bot]

\* C12: whenever the delivery callback returns, the send_message calls it
\* made for the notice are an initial part of HTML, MARKDOWN, plain in that
\* order, each made only after all those before it had raised; at most one
\* of them delivered, and that one is the last call made; nothing is
\* delivered only when all three raised; and when HTML and MARKDOWN have
\* raised and the plain call succeeds the notice is delivered once, as plain
\* text.
C12_DeliveryFallback ==
    [][ \A b \in Bots :
          /\ ev'.sender = b =>
                /\ ev'.tried = SubSeq(Modes, 1, Len(ev'.tried))
                /\ Len(ev'.via) <= 1
                /\ ev'.via # <<>> =>
                      /\ ev'.via[1] = ev'.tried[Len(ev'.tried)]
                      /\ ev'.tried = Append(task[b].tried, ev'.via[1])
                /\ ev'.via = <<>> => (task[b].tried = Modes /\ ev'.tried = Modes)
                /\ task[b].tried = <<"HTML", "MARKDOWN">> => ev'.via = <<"plain">>
          /\ (task[b].pc = "send" /\ task'[b].pc = "send"
                /\ task'[b].out = task[b].out /\ task'[b].tried # task[b].tried) =>
                /\ Len(task[b].tried) < Len(Modes)
                /\ task'[b].tried = Append(task[b].tried, Modes[Len(task[b].tried) + 1])
      ]_vars

\* C12 witness: a text chunk was delivered by the third call, as plain text,
\* after the HTML and the MARKDOWN call had raised.
C12_Witness ==
    /\ ev.sender # 0 /\ ev.msg = "chunk"
    /\ ev.tried = Modes
    /\ ev.via = <<"plain">>

\* C13: no exception leaves handle_turn or handle_image: a front-end's update
\* handler never ends with one, whichever provider calls and send_message
\* calls raise.
C13_NothingEscapes ==
    \A b \in Bots : task[b].pc # "raised"

\* C13 witness: an image turn has returned after its run could not be
\* created or its answer not be listed, and after all three send_message
\* calls for the resulting error notice had raised as well.
C13_Witness ==
    /\ ev.exit = "img_done" /\ ev.msg = "error"
    /\ ev.sender # 0 /\ ev.tried = Modes /\ ev.via = <<>>
    /\ task[ev.sender].pc = "idle"

\* The number of times notice m was handed to the callback in turn t.
Count(t, m) == Cardinality({i \in 1..Len(t.out) : t.out[i] = m})

\* C15: in an image turn the callback is handed the "queued" notice at most
\* once and the "still queued" notice at most once, the latter only after the
\* former, and either of them only while the status last polled is queued.
C15_QueuedNotices ==
    \A b \in Bots :
      LET t == task[b]
      IN /\ Count(t, "queued") <= 1
         /\ Count(t, "still_queued") <= 1
         /\ \A i \in 1..Len(t.out) :
               t.out[i] = "still_queued" =>
                 \E j \in 1..(i - 1) : t.out[j] = "queued"
         /\ t.pc = "send" /\ t.cont \in {"queued", "still"} =>
               t.status = "queued"

\* C15 witness: a run that was queued long enough for both notices has
\* completed; the callback was handed one of each and then the answer.
C15_Witness ==
    /\ task[1].pc = "send" /\ task[1].cont = "answer"
    /\ task[1].status = "completed"
    /\ task[1].out = <<"analyzing", "queued", "still_queued", "answer">>

\* C16: in the poll loop the timeout notices handed to the callback are as
\* many as the extensions of the budget (one more while the latest notice is
\* being sent), every extension adds 60 s to the 120 s, and when the callback
\* returns from a timeout notice the loop goes on to its sleep with the
\* handle still BUSY: the turn is not ended.
C16_TimeoutExtends ==
    /\ [](\A b \in Bots :
            LET t == task[b]
            IN t.kind = "image" =>
                 /\ Count(t, "timeout") =
                      t.ext + (IF t.pc = "send" /\ t.cont = "timeout" THEN 1 ELSE 0)
                 /\ max_wait_time(t) = 120 + 60 * Count(t, "timeout")
                      - (IF t.pc = "send" /\ t.cont = "timeout" THEN 60 ELSE 0))
    /\ [][\A b \in Bots :
            task[b].cont = "timeout" /\ task'[b].cont # "timeout" =>
              /\ task'[b].pc = "sleep"
              /\ task'[b].ext = task[b].ext + 1
              /\ max_wait_time(task'[b]) = max_wait_time(task[b]) + 60
              /\ task'[b].out = task[b].out
              /\ IsBusy(get_next_bot, task[b].tid)'
              /\ UNCHANGED message_history]_vars

\* C16 witness: the budget was exceeded, the notice was sent, and the loop
\* polls on with a budget of 180 s and the handle BUSY.
C16_Witness ==
    /\ task[1].pc = "sleep"
    /\ Count(task[1], "timeout") = 1
    /\ max_wait_time(task[1]) = 180
    /\ IsBusy(get_next_bot, task[1].tid)

\* C17 as stated: an image turn that has started a run and waits in the poll
\* loop eventually returns, and its handle is IDLE again.
C17_ImageTurnReturns ==
    \A b \in Solo :
      (task[b].kind = "image" /\ task[b].pc \in {"sleep", "sleep5"})
        ~> (task[b].pc = "idle" /\ \A h \in Bots : in_progress_runs[h] = {})

\* C17 witness: the poll loop has used up its budget and all the extensions
\* within the bound, retrieval has just failed, and the turn is still polling
\* with the handle BUSY.
C17_Witness ==
    /\ task[1].pc = "sleep5"
    /\ task[1].ext = MaxExtends
    /\ IsBusy(get_next_bot, task[1].tid)

\* The text segments of the assistant-role messages of this turn's run in a
\* listing, each named by message and item index.
RunTexts(data) ==
    {<<m, i>> : m \in 1..MaxListed, i \in 1..2} \cap
    {x \in (1..MaxListed) \X (1..2) :
       /\ x[1] <= Len(data)
       /\ data[x[1]].role = "assistant" /\ data[x[1]].run_id = "this"
       /\ x[2] <= Len(data[x[1]].content)
       /\ data[x[1]].content[x[2]] = "text"}

\* C18: when the poll loop ends with completed, the texts the turn sets out
\* to deliver are the text segments of the listed assistant messages of its
\* run, each once and no other, and one is handed to the callback per text;
\* when it ends with failed, cancelled or expired the callback is handed one
\* failure notice for that status and no assistant text.
C18_AnswerDelivery ==
    /\ [](\A b \in Bots :
            LET t == task[b]
                sent == Count(t, "answer")
            IN /\ ev.op = "loop_end" /\ ev.bot = b /\ ev.status = "completed" =>
                    /\ {t.texts[j] : j \in 1..Len(t.texts)} = RunTexts(ev.listed)
                    /\ Len(t.texts) = Cardinality(RunTexts(ev.listed))
                    /\ sent = IF t.texts = <<>> THEN 0 ELSE 1
               /\ ev.op = "loop_end" /\ ev.bot = b /\ ev.status # "completed" =>
                    /\ t.status = ev.status /\ t.pc = "send"
                    /\ t.out[Len(t.out)] = "failed_status"
               /\ t.kind = "image" /\ t.cont = "answer" =>
                    /\ t.status = "completed"
                    /\ sent = Len(t.texts) - t.n + 1
                    /\ t.n \in 1..Len(t.texts)
               /\ sent > 0 => t.cont = "answer" /\ Count(t, "failed_status") = 0
               /\ Count(t, "failed_status") <= 1
               /\ Count(t, "failed_status") = 1 =>
                    /\ t.status \in Terminal \ {"completed"}
                    /\ t.cont = "img_done" /\ sent = 0)
    /\ [][\A b \in Bots :
            task[b].kind = "image" /\ task[b].cont = "answer"
              /\ task'[b] # task[b] /\ task'[b].pc # "send" =>
                /\ task[b].n = 1
                /\ task'[b] = IdleTask]_vars

\* C18 witness: the run completed and the listing held a text of the run
\* after an image item and a text of the run in a second message; the first
\* was handed over and the second is being sent.
C18_Witness ==
    /\ task[1].cont = "answer" /\ task[1].pc = "send"
    /\ task[1].status = "completed"
    /\ task[1].texts = <<(<<1, 2>>), (<<2, 1>>)>>
    /\ task[1].n = 1
    /\ Count(task[1], "answer") = 2

\* C19 as stated: no handler's message history ever holds more than 20
\* entries.
C19_HistoryCapped ==
    \A b \in Bots : Len(message_history[b]) <= max_messages

\* C19 witness: a turn has appended to a history of 20 entries, and the
\* history is longer than what trim_message_history would keep.
C19_Witness ==
    \E b \in Bots :
      /\ Len(message_history[b]) = max_messages + 1
      /\ trim_message_history(message_history[b]) # message_history[b]
      /\ Len(trim_message_history(message_history[b])) = max_messages

\* C20 as stated: a text that has been through prepare_text_for_html is not
\* changed by it again.
C20_Idempotent ==
    fmt.passes >= 1 => prepare_text_for_html(fmt.text) = fmt.text

\* C20 witness: a text of heading marks and spaces has been through the
\* function once and its first step still finds a heading mark to remove.
C20_Witness ==
    /\ fmt.passes = 1
    /\ \E i \in 1..Len(fmt.text) : MatchHeading(fmt.text, i).end # 0

\* The tags of a raw text: the pairs <<i, j>> such that the elements i..j
\* are an opening, a non-empty name without a closing bracket, and a closing
\* bracket.
TagsOf(raw) ==
    {p \in (1..Len(raw)) \X (1..Len(raw)) :
       /\ p[2] > p[1] + 1 /\ raw[p[1]] = "[" /\ raw[p[2]] = "]"
       /\ \A m \in (p[1] + 1)..(p[2] - 1) : raw[m] # "]"}

RECURSIVE Words(_, _, _)
\* The elements of x from the i-th on that are not white space and lie in
\* none of the given tags.
Words(x, i, tags) ==
    IF i > Len(x) THEN <<>>
    ELSE (IF x[i] \in White \/ \E p \in tags : p[1] <= i /\ i <= p[2]
          THEN <<>> ELSE <<x[i]>>) \o Words(x, i + 1, tags)

\* The tags of a raw text that do not start inside an earlier one.
OuterTags(raw) ==
    {p \in TagsOf(raw) : \A q \in TagsOf(raw) : ~(q[1] < p[1] /\ p[1] <= q[2])}

\* C21: a routed turn whose text carries a user-info tag with a name leaves
\* that name (of the first tag) as the key's user name, whatever it was, and
\* calls the assistant handler with the text without its tags; a routed turn
\* whose text carries no such tag leaves the user name as it was and calls
\* the handler with the text it was given.
C21_UserInfoTag ==
    [][IsRoute(ev') =>
         LET raw == ev'.raw
             k == ev'.key
             first == CHOOSE p \in TagsOf(raw) : \A q \in TagsOf(raw) : p[1] <= q[1]
             called == ev'.exit # "no_thread"
         IN IF TagsOf(raw) # {}
            THEN /\ user_data'[k] = Join(SubSeq(raw, first[1] + 1, first[2] - 1))
                 /\ called =>
                      /\ TagsOf(ev'.text) = {}
                      /\ Words(ev'.text, 1, {}) = Words(raw, 1, OuterTags(raw))
            ELSE /\ user_data'[k] = user_data[k]
                 /\ called => ev'.text = raw
      ]_vars

\* C21 witness: an image turn whose text had a tag naming Bo between other
\* words was routed; Bo is the key's user name and the handler was called
\* with the words only.
C21_Witness ==
    /\ IsRoute(ev) /\ ev.exit # "no_thread"
    /\ ev.raw = <<"hi", NL, "[", "Bo", "]", NL, "hi">>
    /\ ev.text = <<"hi", NL, "hi">>
    /\ user_data[ev.key] = "Bo"
    /\ \E b \in Bots : task[b].kind = "image"

\* C22 as stated: every text update from a sender that is not a bot, in a
\* private chat or in a group with a mention of the bot, makes the front-end
\* call handle_turn for the chat, whether or not the chat has a conversation.
C22_TextIsRouted ==
    [][(turns' = turns + 1 /\ ev'.update.op = "message" /\ ~ev'.update.is_bot
         /\ (ev'.update.chat = "private" \/ ev'.update.mentions > 0)) =>
        (ev'.op = "text" /\ ev'.raw # <<>>)
      ]_vars

\* C22 witness: a group without a conversation sent a message mentioning the
\* bot; the handler ended with an exception, no thread was asked for and the
\* group still has no conversation.
C22_Witness ==
    /\ ev.op = "update" /\ ev.exit = "TypeError"
    /\ ev.update.chat = "group" /\ ev.update.mentions = 1 /\ ~ev.update.is_bot
    /\ task[ev.bot].pc = "raised"
    /\ ~is_active(ev.key)
    /\ nextThread = 0

\* Whether a step's calls include one at the site, one that raised, one
\* that returned.
Made(c, site) == \E i \in 1..Len(c) : c[i].site = site
Failed(c, site) == \E i \in 1..Len(c) : c[i].site = site /\ ~c[i].ok
Went(c, site) == \E i \in 1..Len(c) : c[i].site = site /\ c[i].ok

\* A step of front-end b's turn other than a failed send_message call either
\* ends the turn with its flag clear or leaves it in the same delivery.
ReturnsAfter(b, cont) ==
    (task[b].cont = cont /\ task'[b] # task[b]) =>
        /\ ev'.calls = <<>>
        /\ task'[b].out = task[b].out \/ task'[b] = IdleTask
        /\ \/ task'[b].pc = "send" /\ task'[b].cont = cont
           \/ /\ task'[b] = IdleTask
              /\ task[b].tid \notin in_progress_runs'[get_next_bot]

\* C23: in an image turn, when the attach by file reference raises the
\* attach as inline base64 is made next; when that raises as well the turn
\* makes no further provider call (no run is created), hands the callback
\* one failure notice, and after its delivery returns with the flag clear;
\* runs.create is called only after one of the two attach calls returned.
C23_AttachFallback ==
    [][\A b \in Solo :
         LET c == ev'.calls
         IN /\ (task[b].cont = "img_setup" /\ c # <<>>) =>
                 /\ \A i \in 1..Len(c) :
                       (c[i].site = "image_file" /\ ~c[i].ok) =>
                           i < Len(c) /\ c[i + 1].site = "image_url"
                 /\ (Failed(c, "image_file") /\ Failed(c, "image_url")) =>
                       /\ c[Len(c)].site = "image_url"
                       /\ task'[b].pc = "send" /\ task'[b].cont = "img_abort"
                       /\ task'[b].out = Append(task[b].out, "cannot_process")
                       /\ task'[b].status = ""
                 /\ Made(c, "runs.create") =>
                       Went(c, "image_file") \/ Went(c, "image_url")
                 /\ Made(c, "image_url") => Failed(c, "image_file")
            /\ (Count(task[b], "cannot_process") > 0) => ReturnsAfter(b, "img_abort")
      ]_vars

\* C23 witness: an image turn whose two attach calls raised has returned
\* after its one failure notice, with no flag set.
C23_Witness ==
    /\ ev.exit = "img_abort" /\ ev.msg = "cannot_process"
    /\ ev.sender # 0 /\ task[ev.sender] = IdleTask
    /\ \A b \in Bots : in_progress_runs[b] = {}


\* C24: when the first messages.create of a turn (the user's text) raises,
\* the turn makes no provider call after it. A text turn returns in that
\* step, with the flag of its handle clear and nothing sent or recorded; an
\* image turn hands the callback one failure notice and after its delivery
\* returns with the flag clear, having made no further call.
C24_TextMessageFails ==
    [][\A b \in Solo :
         LET c == ev'.calls
         IN /\ (c # <<>> /\ c[1] = Call("messages.create", FALSE)) =>
                 /\ Len(c) = 1
                 /\ \/ /\ ev'.op = "text" /\ ev'.bot = b
                       /\ task[b].pc = "idle" /\ task'[b] = IdleTask
                       /\ ev'.ret \notin in_progress_runs'[get_next_bot]
                       /\ message_history' = message_history
                    \/ /\ task[b].kind = "image" /\ task[b].cont = "img_setup"
                       /\ task'[b].pc = "send" /\ task'[b].cont = "img_abort"
                       /\ task'[b].out = Append(task[b].out, "upload_failed")
                       /\ task'[b].status = ""
                       /\ message_history' = message_history
            /\ (Count(task[b], "upload_failed") > 0) => ReturnsAfter(b, "img_abort")
      ]_vars

\* C24 witness: a text turn has returned in the step in which its
\* messages.create raised, and no flag is set.
C24_Witness ==
    /\ ev.op = "text" /\ ev.exit = "msg_fail"
    /\ ev.calls = <<Call("messages.create", FALSE)>>
    /\ task[ev.bot] = IdleTask
    /\ \A b \in Bots : in_progress_runs[b] = {}

\* C25: in the poll loop of an image turn a runs.retrieve call that raises
\* ends neither the loop nor the turn and leaves the last known status and
\* the flag as they are; after the extra sleep the loop goes on from its
\* test with that status, up to the next sleep and retrieval; and a
\* retrieval that later reports a terminal status ends the loop with the
\* outcome of that status (the listing of the answer, or the status notice).
C25_RetrieveFails ==
    [][\A b \in Solo :
         LET c == ev'.calls
         IN /\ (c # <<>> /\ c[1] = Call("runs.retrieve", FALSE)) =>
                 /\ Len(c) = 1
                 /\ task[b].pc = "sleep"
                 /\ task'[b] = [task[b] EXCEPT !.pc = "sleep5", !.failed = TRUE]
                 /\ in_progress_runs' = in_progress_runs
            /\ (task[b].pc = "sleep5" /\ task'[b] # task[b]) =>
                 /\ c = <<>>
                 /\ task'[b].status = task[b].status
                 /\ \/ task'[b].pc = "sleep"
                    \/ /\ task'[b].pc = "send"
                       /\ task'[b].cont \in {"queued", "still", "timeout"}
            /\ (task[b].failed /\ c # <<>> /\ c[1] = Call("runs.retrieve", TRUE)
                  /\ task'[b].status \in Terminal) =>
                 /\ ev'.op = "loop_end" /\ ev'.status = task'[b].status
                 /\ task'[b].pc = "send"
                 /\ LET notice == task'[b].out[Len(task'[b].out)]
                    IN IF task'[b].status = "completed"
                       THEN /\ c = <<Call("runs.retrieve", TRUE),
                                     Call("messages.list", notice # "error")>>
                            /\ notice \in {"answer", "no_response", "error"}
                            /\ notice = "answer" <=> task'[b].cont = "answer"
                       ELSE /\ Len(c) = 1
                            /\ notice = "failed_status"
                            /\ task'[b].cont = "img_done"
      ]_vars

\* C25 witness: after a retrieval of the turn had raised, a later one
\* reported completed, the loop ended, and the first text of the listed
\* answer is being delivered.
C25_Witness ==
    \E b \in Solo :
       /\ task[b].failed
       /\ ev.op = "loop_end" /\ ev.status = "completed"
       /\ ev.calls = <<Call("runs.retrieve", TRUE), Call("messages.list", TRUE)>>
       /\ task[b].pc = "send" /\ task[b].cont = "answer"

\* C26: the text process_markdown returns holds no two asterisks in a row,
\* whatever text it is given.
C26_NoDoubledMarker ==
    fmt.by = "process_markdown" =>
        \A i \in 1..Len(fmt.text) : ~(At(fmt.text, i) = "*" /\ At(fmt.text, i + 1) = "*")

\* C26 witness: process_markdown was given a text with three asterisks in a
\* row.
C26_Witness ==
    /\ fmt.by = "process_markdown"
    /\ \E i \in 1..Len(fmt.given) :
          At(fmt.given, i) = "*" /\ At(fmt.given, i + 1) = "*" /\ At(fmt.given, i + 2) = "*"

\* The text of a heading.
Title(x) == SubSeq(x, 5, Len(x))

\* C27: of a heading ### text process_markdown makes *text* and
\* prepare_text_for_html the text between the bold tags.
C27_HeadingEmphasized ==
    fmt.given \in Headings =>
        /\ fmt.by = "process_markdown" =>
              fmt.text = <<"*">> \o Title(fmt.given) \o <<"*">>
        /\ fmt.by = "prepare_text_for_html" =>
              fmt.text = <<"<b>">> \o Title(fmt.given) \o <<"</b>">>

\* C27 witness: prepare_text_for_html was given a heading.
C27_Witness ==
    fmt.given \in Headings /\ fmt.by = "prepare_text_for_html"

\* C28: of every numbered emphasized label, whatever the spaces after the
\* opening marker, before the closing marker and before the colon,
\* process_markdown makes N. *label*:
C28_LabelNormalized ==
    (fmt.given \in Labels /\ fmt.by = "process_markdown") =>
        fmt.text = <<"1", ".", " ", "*", "x", "*", ":">>

\* C28 witness: process_markdown was given a label with a space before the
\* closing marker only.
C28_Witness ==
    /\ fmt.by = "process_markdown"
    /\ fmt.given = <<"1", ".", " ", "*", "*", "x", " ", "*", "*", ":">>

\* The provider calls of the step just taken: the thread creation of
\* set_thread_id, if it was called, and the calls of the assistant handler.
ProviderCalls(e) ==
    (IF e.prov = "none" THEN <<>> ELSE <<Call("threads.create", e.prov # "raise")>>)
        \o e.calls

\* C29: every provider call is a suspension point of its task, at which the
\* other tasks of the event loop can take steps: a step, which runs a task
\* from one suspension point to the next with no other task in between,
\* holds at most one provider call.
C29_ProviderCallsSuspend ==
    [][Len(ProviderCalls(ev')) <= 1]_vars

\* C29 witness: a front-end has run through several provider calls in one
\* step while another front-end's turn was waiting for its delivery.
C29_Witness ==
    /\ Len(ProviderCalls(ev)) >= 2
    /\ IsRoute(ev)
    /\ \E b \in Bots : b # ev.bot /\ InTurn(b) /\ task[b].pc = "send"

\* The front-ends running a turn of key k.
TurnsOf(k) == {b \in Bots : InTurn(b) /\ task[b].key = k}

\* C30: at no time are two turns of one key in progress.
C30_OneTurnPerKey ==
    \A k \in Keys : Cardinality(TurnsOf(k)) <= 1

\* C30 witness: the conversation of a key was ended while a turn of the key
\* was running, and a message for the key was routed after that.
C30_Witness ==
    /\ IsRoute(ev) /\ ev.hint = None /\ ev.prov = "ok"
    /\ \E b \in Bots : b # ev.bot /\ InTurn(b) /\ task[b].key = ev.key
                       /\ task[b].tid # ev.ret

\* C31: once end_conversation has removed a key's handle, a turn that runs
\* on that handle hands nothing more (no text of the assistant, no notice)
\* to the delivery callback of the key's chat.
C31_NoOutputAfterEnd ==
    [][\A b \in Bots :
         (task[b].pc # "idle" /\ task'[b].pc = "send" /\ task'[b].out # task[b].out)
             => threads[task[b].key] = task[b].tid
      ]_vars

\* C31 witness: the last step resumed a turn whose handle had been removed
\* from its key before, and a text or notice of that turn is on its way to
\* the chat.
C31_Witness ==
    \E b \in Bots :
       /\ ev.op \in {"step", "loop_end"} /\ ev.sender = b
       /\ task[b].pc = "send" /\ Len(task[b].out) >= 2
       /\ threads[task[b].key] # task[b].tid

RECURSIVE Paragraphs(_)
\* The non-empty paragraphs of a text: its parts between double newlines,
\* stripped, in order.
Paragraphs(x) ==
    LET i == Boundary(x)
        head == Strip(IF i = 0 THEN x ELSE SubSeq(x, 1, i - 1))
        first == IF head = <<>> THEN <<>> ELSE <<head>>
    IN IF i = 0 THEN first
       ELSE first \o Paragraphs(SubSeq(x, i + 2, Len(x)))

\* C14 as stated: after every fragment the buffer holds no double newline,
\* no chunk handed to the callback holds one, and once the stream has ended
\* the chunks are the non-empty paragraphs of the streamed text, in order,
\* each once.
C14_ParagraphsFlushed ==
    /\ Boundary(stream.buffer) = 0
    /\ \A i \in 1..Len(stream.sent) : Boundary(stream.sent[i]) = 0
    /\ (stream.done /\ ~stream.error) => stream.sent = Paragraphs(stream.received)

\* C14 witness: one fragment held two double newlines and the loop left one
\* of them in the buffer.
C14_Witness ==
    /\ stream.n = 1 /\ ~stream.done
    /\ Boundary(stream.received) # 0
    /\ Boundary(stream.buffer) # 0

\* C32: when the stream of a text turn raises after k paragraphs were
\* flushed, those k chunks are all the callback has been and will be handed
\* for the turn (they are the first k paragraphs of the streamed text, in
\* order, each once); what the buffer holds is not sent, no notice is sent,
\* and the flag is cleared.
C32_StreamFails ==
    [][ /\ stream'.error =>
              /\ stream'.sent = stream.sent
              /\ stream'.done /\ ~stream'.flag
              /\ Len(stream'.sent) <= Len(Paragraphs(stream'.received))
              /\ stream'.sent = SubSeq(Paragraphs(stream'.received), 1, Len(stream'.sent))
        /\ ~stream.error
      ]_vars

\* C32 witness: the stream raised after two paragraphs had been flushed and
\* with text in the buffer, which was not sent.
C32_Witness ==
    /\ stream.error /\ ~stream.flag
    /\ Len(stream.sent) = 2
    /\ Strip(stream.buffer) # <<>>

\* C33: no update whose sender is a bot, text or photo, makes a front-end
\* call the router (handle_turn, handle_image).
C33_BotSenderIgnored ==
    ev.update.is_bot => ~IsRoute(ev)

\* C33 witness: a photo sent by a bot was handed to handle_image, which
\* started an image turn for the chat.
C33_Witness ==
    /\ ev.op = "image" /\ ev.update.op = "photo" /\ ev.update.is_bot
    /\ InTurn(ev.bot) /\ task[ev.bot].kind = "image"

\* C34: each inbound text event causes at most one call of the router's
\* handle_turn, also a group message with several mention entities that name
\* the bot: no router call is made for a further mention entity of an update
\* whose handler has already called the router.
C34_OneCallPerText ==
    ~(ev.op = "text" /\ ev.update.op = "mention")

\* C34 witness: in a group with an active conversation a text message with
\* two mentions of the bot has had its first handle_turn call return, and
\* the loop over the entities has called handle_turn a second time, which
\* opened a run on the conversation's thread.
C34_Witness ==
    /\ ev.op = "text" /\ ev.update.op = "mention" /\ ev.update.chat = "group"
    /\ ev.calls # <<>> /\ ev.calls[1] = Call("messages.create", TRUE)
    /\ InTurn(ev.bot) /\ task[ev.bot].kind = "text"
    /\ task[ev.bot].more = 0 /\ turns = MaxTurns + 1

\* C35: in every reachable state every handle the Session Store holds, and
\* every handle a registered responder's cache holds, is a non-empty string
\* (one of the provider's thread ids); and no set_thread_id call stores an
\* empty or non-str hint or the result of a threads.create() that gave no id:
\* such a call of a key without a handle leaves the key without one.
C35_HandlesAreStrings ==
    /\ \A k \in Keys :
         /\ threads[k] # None => threads[k] \in Handles
         /\ \A b \in all_bots : Cache(b)[k] # None => Cache(b)[k] \in Handles
    /\ (/\ ev.op \in {"resolve", "text", "image"}
        /\ \/ ev.prov \in {"noid", "raise"}
           \/ ev.prov = "none" /\ ~(Truthy(ev.hint) /\ IsStr(ev.hint)))
          => (ev.ret \in Handles \cup {None} /\ threads[ev.key] = ev.ret)

\* C35 witness: set_thread_id was called for a key without a handle with a
\* hint that is not a valid handle (empty, or not a str), the provider gave a
\* response without id, and the key is still without a handle while the
\* provider has given ids before.
C35_Witness ==
    /\ ev.op = "resolve" /\ ev.hint \in {"", NonStr} /\ ev.prov = "noid"
    /\ ev.ret = None /\ threads[ev.key] = None
    /\ \A b \in all_bots : Cache(b)[ev.key] = None
    /\ all_bots # {} /\ nextThread > 0


====
